---- MODULE Spec2Model ----
(***************************************************************************)
(* A model of the heartbeat pipeline of the sidekick review dashboard:     *)
(*   - clusterHeartbeats           (src/src/services/hackatime.ts)         *)
(*   - project-root inference and relative paths                           *)
(*                                 (src/src/components/ui/CodeView.tsx)    *)
(*   - the ingestion and the aggregate hours of useHeartbeatData           *)
(*                                 (src/src/hooks/useHeartbeatData.ts)     *)
(*   - hour-sync                   (src/src/hooks/useSubmissionActions.ts) *)
(*   - the playback view           (src/src/components/ui/CodeView.tsx)    *)
(*   - the fetched-source cache    (src/src/services/airtable.ts)          *)
(*   - the delta plots             (src/unnamed/part_004)                  *)
(*   - submission writes and the review actions                            *)
(*                                 (src/src/types/submission.ts,           *)
(*                                  src/src/hooks/useSubmissionActions.ts, *)
(*                                  useSubmissionData)                     *)
(* Each subsystem has its own specification over its own variables; the    *)
(* variables of the other subsystems stay at their initial values.         *)
(***************************************************************************)
EXTENDS Integers, Sequences, FiniteSets, TLC

VARIABLES
    \* clustering (TimeSection's call of clusterHeartbeats)
    cHeartbeats,     \* the heartbeats handed to clusterHeartbeats
    cClusters,       \* the clusters it returned
    cReclustered,    \* the clusters of the flattened, re-sorted output
    cPc,             \* "input" | "clustered" | "reclustered"
    \* file grouping (CodeView's groupHeartbeatsByFile)
    gHeartbeats,     \* the heartbeats of the cluster shown in the code view
    gEntities,       \* the entity list handed to findProjectRoot
    gRootParts,      \* findProjectRoot's result
    gGroups,         \* the FileGroups
    gPc,             \* "input" | "grouped"
    \* heartbeat ingestion and aggregate hours (useHeartbeatData)
    hackatimeService,        \* TRUE when the hook holds a HackatimeService
    allSubmissions,          \* the allSubmissions argument: <<list>>, or <<>> when undefined
    selectedSubmission,      \* the viewed submission
    hbPc,                    \* position of the effect's fetchHeartbeats run
    hbHeartbeats,            \* heartbeats
    hbIsLoading,             \* isLoading
    hbError,                 \* error (a message, or Null)
    hbProgress,              \* progress: <<[current, total]>>, or <<>> for null
    hbUserId,                \* hackatimeUserId: <<id>>, or <<>> for null
    hbTrustLevel,            \* trustLevel (a level, or Null)
    aggregatedProjectSeconds,\* aggregatedProjectHours * 3600: <<n>>, or <<>> for null
    hbRun,                   \* the locals of the run: allProjects, aggregateProjects,
                             \* allHeartbeats, currentDate, endDay, currentDay, totalDays
    hbStale,                 \* requests of earlier effect runs that are still in flight
    hbSelections,            \* how often the viewed submission was changed
    hbDiscarded,             \* how many requests of earlier runs have settled
    \* hour-sync (useSubmissionActions.handleSyncFromHackatime + MainLayout)
    hackatimeAdminKey,       \* "none" | "invalid" | "valid"
    syncSubmission,          \* the active submission (e-mail, project keys)
    subHoursSpent,           \* its hoursSpent, in tenths of an hour
    subHoursSpentJustification,
    localHoursSpent,         \* useSubmissionData.localHoursSpent, in tenths of an hour
    localHoursSpentJustification,
    syncPc,                  \* position of handleSyncFromHackatime
    syncRun,                 \* its locals: projects, matchedProjects, totalSeconds
    syncUpdateCalls,         \* how often onUpdate was invoked
    pendingWrites,           \* submission.update calls awaiting the data service
    \* playback view (CodeView) and the fetched-source cache (GitHubService)
    pHeartbeats,             \* CodeView's heartbeats prop
    fileGroups,              \* useMemo(groupHeartbeatsByFile(heartbeats)).groups
    selectedFileGroup,       \* <<group>>, or <<>> for null
    currentIndex,
    isPlaying,
    fetchState,              \* [content, isLoading, error, key]; <<>> stands for null
    pRequests,               \* GitHub requests in flight, each with the cancelled
                             \* flag of the effect run that issued it
    cache,                   \* GitHubService.cache: cache key -> <<[content, timestamp]>>
    now,                     \* Date.now(), in ms
    pDeps,                   \* the dependencies the fetch effect last ran with
    pLast,                   \* the last event handled, and currentIndex before it
    pPropChanges,            \* how often the heartbeats prop was replaced
    \* delta plots (DeltaPlotView's call of computeDeltas)
    dHeartbeats,
    dDeltas,
    dPc,
    \* submission writes and review actions (YswsSubmission, useSubmissionActions, useSubmissionData)
    rvConfig,                \* data service, optional columns, admin key
    rvSubs,                  \* the locally held fields of each submission
    rvRemote,                \* the fields as the data service holds them
    rvSelected,              \* selectedSubmission (None or Some(record id))
    rvLocal,                 \* localHoursSpent, local justification, local keys
    rvLoadTimer,             \* pending 0 ms timer of the load effect
    rvJustTimer,             \* pending 500 ms timer of the justification effect
    rvKeysTimer,             \* pending 500 ms timer of the project keys effect
    rvInFlight,              \* updateSubmission calls awaiting their outcome
    approvingSubmission,
    rejectingSubmission,
    showRejectionPrompt,
    rvSyncs,                 \* hour-syncs awaiting their lookups
    rvLast,                  \* outcome of the last step (ghost)
    rvCount                  \* things the reviewer has done so far

clusterVars == <<cHeartbeats, cClusters, cReclustered, cPc>>
groupVars   == <<gHeartbeats, gEntities, gRootParts, gGroups, gPc>>
hbVars      == <<hackatimeService, allSubmissions, selectedSubmission, hbPc,
                 hbHeartbeats, hbIsLoading, hbError, hbProgress, hbUserId,
                 hbTrustLevel, aggregatedProjectSeconds, hbRun, hbStale,
                 hbSelections, hbDiscarded>>
syncVars    == <<hackatimeAdminKey, syncSubmission, subHoursSpent,
                 subHoursSpentJustification, localHoursSpent,
                 localHoursSpentJustification, syncPc, syncRun, syncUpdateCalls,
                 pendingWrites>>
playVars    == <<pHeartbeats, fileGroups, selectedFileGroup, currentIndex, isPlaying,
                 fetchState, pRequests, cache, now, pDeps, pLast, pPropChanges>>
deltaVars   == <<dHeartbeats, dDeltas, dPc>>
rvVars      == <<rvConfig, rvSubs, rvRemote, rvSelected, rvLocal, rvLoadTimer,
                 rvJustTimer, rvKeysTimer, rvInFlight, approvingSubmission,
                 rejectingSubmission, showRejectionPrompt, rvSyncs, rvLast, rvCount>>
reviewVars  == <<deltaVars, rvVars>>
vars == <<clusterVars, groupVars, hbVars, syncVars, playVars, reviewVars>>

Null == "null"
Undefined == "undefined"

\* ------------------------------------------------------------------------
\* Generic helpers
\* ------------------------------------------------------------------------

\* All sequences over S of length 0..n
SeqsUpTo(S, n) == UNION {[1..k -> S] : k \in 0..n}

Min(a, b) == IF a <= b THEN a ELSE b
Max(a, b) == IF a >= b THEN a ELSE b

RECURSIVE SumSeq(_)
SumSeq(s) == IF s = <<>> THEN 0 ELSE Head(s) + SumSeq(Tail(s))

\* ------------------------------------------------------------------------
\* Clustering: src/src/services/hackatime.ts
\* ------------------------------------------------------------------------

\* bounds of the clustering inputs
MaxHeartbeats == 3

\* Heartbeat times (ms) the inputs are drawn from: gaps below, at and above
\* the threshold, and the spec's scenarios (0s/100s/200s, 0s/1000s).
Times == {0, 100000, 200000, 900000, 900001, 1000000, 1900001}

CLUSTER_THRESHOLD_MS == 15 * 60 * 1000

\* A heartbeat of the clustering input: its time and its identity (the
\* position it had in the input array; two heartbeats may share a time).
ClusterInputs ==
    {[i \in 1..Len(ts) |-> [time |-> ts[i], idx |-> i]] :
        ts \in SeqsUpTo(Times, MaxHeartbeats)}

\* [...heartbeats].sort((a, b) => a.time - b.time): a stable sort by time.
RECURSIVE InsertByTime(_, _)
InsertByTime(sorted, hb) ==
    IF sorted = <<>> THEN <<hb>>
    ELSE IF sorted[Len(sorted)].time <= hb.time THEN Append(sorted, hb)
    ELSE Append(InsertByTime(SubSeq(sorted, 1, Len(sorted) - 1), hb),
                sorted[Len(sorted)])

RECURSIVE SortByTimeFrom(_, _, _)
SortByTimeFrom(hbs, i, acc) ==
    IF i > Len(hbs) THEN acc
    ELSE SortByTimeFrom(hbs, i + 1, InsertByTime(acc, hbs[i]))

SortByTime(hbs) == SortByTimeFrom(hbs, 1, <<>>)

\* The cluster object pushed at lines 258-263 and 273-278.
MakeCluster(clusters, currentCluster) ==
    [id        |-> <<"cluster-", Len(clusters)>>,
     startTime |-> currentCluster[1].time,
     endTime   |-> currentCluster[Len(currentCluster)].time,
     heartbeats |-> currentCluster]

\* The final flush (lines 272-279).
FlushDropped(clusters, currentCluster) == clusters

Flush(clusters, currentCluster) ==
    IF Len(currentCluster) > 0
    THEN Append(clusters, MakeCluster(clusters, currentCluster))
    ELSE clusters

\* The gap test of line 254.
SameClusterStrict(currentTime, lastTime) ==
    currentTime - lastTime < CLUSTER_THRESHOLD_MS

SameCluster(currentTime, lastTime) ==
    currentTime - lastTime <= CLUSTER_THRESHOLD_MS

\* currentCluster = [sorted[i]] (line 266).
StartClusterEmpty(hb) == <<>>

StartCluster(hb) == <<hb>>

\* The scan of lines 251-270, from index i on.
RECURSIVE ClusterScan(_, _, _, _, _)
ClusterScan(sorted, i, clusters, currentCluster, lastTime) ==
    IF i > Len(sorted) THEN Flush(clusters, currentCluster)
    ELSE LET currentTime == sorted[i].time IN
         IF SameCluster(currentTime, lastTime)
         THEN ClusterScan(sorted, i + 1, clusters,
                          Append(currentCluster, sorted[i]), currentTime)
         ELSE ClusterScan(sorted, i + 1,
                          IF Len(currentCluster) > 0
                          THEN Append(clusters, MakeCluster(clusters, currentCluster))
                          ELSE clusters,
                          StartCluster(sorted[i]), currentTime)

clusterHeartbeats(heartbeats) ==
    IF Len(heartbeats) = 0 THEN <<>>
    ELSE LET sorted == SortByTime(heartbeats) IN
         ClusterScan(sorted, 2, <<>>, <<sorted[1]>>, sorted[1].time)

\* The heartbeats fields of the clusters, concatenated in cluster order
RECURSIVE Flatten(_)
Flatten(clusters) ==
    IF clusters = <<>> THEN <<>>
    ELSE Head(clusters).heartbeats \o Flatten(Tail(clusters))

\* TimeSection computes the clusters of the hook's heartbeats.
ClusterHeartbeats ==
    /\ cPc = "input"
    /\ cClusters' = clusterHeartbeats(cHeartbeats)
    /\ cPc' = "clustered"
    /\ UNCHANGED <<cHeartbeats, cReclustered>>
    /\ UNCHANGED <<groupVars, hbVars, syncVars, playVars, reviewVars>>

\* The clusters' heartbeats, flattened and re-sorted, are clustered again.
Recluster ==
    /\ cPc = "clustered"
    /\ cReclustered' = clusterHeartbeats(SortByTime(Flatten(cClusters)))
    /\ cPc' = "reclustered"
    /\ UNCHANGED <<cHeartbeats, cClusters>>
    /\ UNCHANGED <<groupVars, hbVars, syncVars, playVars, reviewVars>>

\* ------------------------------------------------------------------------
\* File grouping and project root: src/src/components/ui/CodeView.tsx
\* Strings are sequences of one-character strings.
\* ------------------------------------------------------------------------

\* bound of the grouping inputs
MaxGroupHeartbeats == 3

Slash == "/"
Backslash == "\\"

\* String.prototype.toLowerCase, on the characters the inputs use.
LowerChar(c) ==
    CASE c = "A" -> "a" [] c = "B" -> "b" [] c = "C" -> "c" [] c = "F" -> "f"
      [] c = "O" -> "o" [] c = "R" -> "r" [] c = "S" -> "s"
      [] OTHER -> c

ToLowerCase(str) == [i \in 1..Len(str) |-> LowerChar(str[i])]

\* str.split(separator): the pieces between separators, empty ones included.
RECURSIVE SplitFrom(_, _, _, _, _)
SplitFrom(str, seps, i, cur, acc) ==
    IF i > Len(str) THEN Append(acc, cur)
    ELSE IF str[i] \in seps THEN SplitFrom(str, seps, i + 1, <<>>, Append(acc, cur))
    ELSE SplitFrom(str, seps, i + 1, Append(cur, str[i]), acc)

Split(str, seps) == SplitFrom(str, seps, 1, <<>>, <<>>)

\* .filter(Boolean) on strings: the non-empty ones.
RECURSIVE FilterNonEmpty(_)
FilterNonEmpty(strs) ==
    IF strs = <<>> THEN <<>>
    ELSE IF Head(strs) = <<>> THEN FilterNonEmpty(Tail(strs))
    ELSE <<Head(strs)>> \o FilterNonEmpty(Tail(strs))

\* parts.join(sep)
RECURSIVE Join(_, _)
Join(parts, sep) ==
    IF parts = <<>> THEN <<>>
    ELSE IF Len(parts) = 1 THEN parts[1]
    ELSE parts[1] \o <<sep>> \o Join(Tail(parts), sep)

\* array.slice(0, end) for end >= 0
SliceTo(arr, end) == SubSeq(arr, 1, Min(end, Len(arr)))

\* array.slice(start) for start >= 0
SliceFrom(arr, start) == SubSeq(arr, start + 1, Len(arr))

normalizePath(path) == FilterNonEmpty(Split(path, {Slash, Backslash}))

\* dirCounts.set(dir, (dirCounts.get(dir) || 0) + 1) on a Map kept as the
\* sequence of its entries in insertion order.
MapIncrement(dirCounts, dir) ==
    IF \E k \in 1..Len(dirCounts) : dirCounts[k].dir = dir
    THEN [k \in 1..Len(dirCounts) |->
            IF dirCounts[k].dir = dir
            THEN [dir |-> dir, count |-> dirCounts[k].count + 1]
            ELSE dirCounts[k]]
    ELSE Append(dirCounts, [dir |-> dir, count |-> 1])

\* The inner loop of lines 42-45 for one path, from prefix length i on.
RECURSIVE CountPrefixes(_, _, _)
CountPrefixes(parts, i, dirCounts) ==
    IF i > Len(parts) - 1 THEN dirCounts
    ELSE CountPrefixes(parts, i + 1,
                       MapIncrement(dirCounts, Join(SubSeq(parts, 1, i), Slash)))

\* The outer loop of lines 41-46, from path p on.
RECURSIVE CountDirs(_, _, _)
CountDirs(allParts, p, dirCounts) ==
    IF p > Len(allParts) THEN dirCounts
    ELSE CountDirs(allParts, p + 1, CountPrefixes(allParts[p], 1, dirCounts))

\* The comparison of line 58.
BetterScoreOrEqual(score, bestScore) == score >= bestScore

BetterScore(score, bestScore) == score > bestScore

\* The selection loop of lines 48-62, from Map entry k on.
RECURSIVE BestRoot(_, _, _, _)
BestRoot(dirCounts, k, bestRoot, bestScore) ==
    IF k > Len(dirCounts) THEN bestRoot
    ELSE IF dirCounts[k].count < 2 THEN BestRoot(dirCounts, k + 1, bestRoot, bestScore)
    ELSE LET parts == Split(dirCounts[k].dir, {Slash})
             depth == Len(parts)
             score == dirCounts[k].count * depth
         IN  IF BetterScore(score, bestScore)
             THEN BestRoot(dirCounts, k + 1, parts, score)
             ELSE BestRoot(dirCounts, k + 1, bestRoot, bestScore)

findProjectRoot(entities) ==
    IF Len(entities) = 0 THEN <<>>
    ELSE IF Len(entities) = 1
    THEN LET parts == normalizePath(entities[1]) IN SliceTo(parts, Max(0, Len(parts) - 1))
    ELSE LET allParts == [p \in 1..Len(entities) |-> normalizePath(entities[p])]
             dirCounts == CountDirs(allParts, 1, <<>>)
             bestRoot  == BestRoot(dirCounts, 1, <<>>, 0)
         IN  IF Len(bestRoot) = 0
             THEN LET first == allParts[1] IN SliceTo(first, Max(1, Len(first) - 1))
             ELSE bestRoot

\* The comparison of line 77.
SegmentsMatchExactly(a, b) == a = b

SegmentsMatch(a, b) == ToLowerCase(a) = ToLowerCase(b)

\* The loop of lines 75-82, from position i on (1-based).
RECURSIVE MatchLen(_, _, _)
MatchLen(parts, root, i) ==
    IF i > Min(Len(parts), Len(root)) THEN i - 1
    ELSE IF SegmentsMatch(parts[i], root[i]) THEN MatchLen(parts, root, i + 1)
    ELSE i - 1

getRelativePath(entity, root) ==
    LET parts == normalizePath(entity)
        matchLen == MatchLen(parts, root, 1)
        relativeParts == SliceFrom(parts, matchLen)
    IN  IF Len(relativeParts) > 0 THEN Join(relativeParts, Slash)
        ELSE IF Len(parts) > 0 THEN parts[Len(parts)]
        ELSE Undefined

\* heartbeats.map(hb => hb.entity).filter(e => !!e)
RECURSIVE EntitiesOf(_)
EntitiesOf(heartbeats) ==
    IF heartbeats = <<>> THEN <<>>
    ELSE IF Head(heartbeats).entity = <<>> THEN EntitiesOf(Tail(heartbeats))
    ELSE <<Head(heartbeats).entity>> \o EntitiesOf(Tail(heartbeats))

\* The loop of lines 98-103: a Map entity -> heartbeats in insertion order.
RECURSIVE GroupByEntity(_, _, _)
GroupByEntity(heartbeats, i, groups) ==
    IF i > Len(heartbeats) THEN groups
    ELSE LET hb == heartbeats[i] IN
         IF hb.entity = <<>> THEN GroupByEntity(heartbeats, i + 1, groups)
         ELSE IF \E k \in 1..Len(groups) : groups[k].entity = hb.entity
         THEN GroupByEntity(heartbeats, i + 1,
                [k \in 1..Len(groups) |->
                    IF groups[k].entity = hb.entity
                    THEN [entity |-> hb.entity,
                          heartbeats |-> Append(groups[k].heartbeats, hb)]
                    ELSE groups[k]])
         ELSE GroupByEntity(heartbeats, i + 1,
                Append(groups, [entity |-> hb.entity, heartbeats |-> <<hb>>]))

\* .sort((a, b) => b.heartbeats.length - a.heartbeats.length): stable.
RECURSIVE InsertByCount(_, _)
InsertByCount(sorted, g) ==
    IF sorted = <<>> THEN <<g>>
    ELSE IF Len(sorted[Len(sorted)].heartbeats) >= Len(g.heartbeats) THEN Append(sorted, g)
    ELSE Append(InsertByCount(SubSeq(sorted, 1, Len(sorted) - 1), g),
                sorted[Len(sorted)])

RECURSIVE SortByCountFrom(_, _, _)
SortByCountFrom(gs, i, acc) ==
    IF i > Len(gs) THEN acc
    ELSE SortByCountFrom(gs, i + 1, InsertByCount(acc, gs[i]))

\* The entity list groupHeartbeatsByFile hands to findProjectRoot (lines 89-93).
RootEntities(heartbeats) == EntitiesOf(heartbeats)

groupHeartbeatsByFile(heartbeats) ==
    LET entities  == RootEntities(heartbeats)
        rootParts == findProjectRoot(entities)
        groups    == GroupByEntity(heartbeats, 1, <<>>)
        mapped    == [k \in 1..Len(groups) |->
                        [entity       |-> groups[k].entity,
                         relativePath |-> getRelativePath(groups[k].entity, rootParts),
                         heartbeats   |-> SortByTime(groups[k].heartbeats)]]
    IN  [groups      |-> SortByCountFrom(mapped, 1, <<>>),
         projectRoot |-> Join(rootParts, Slash),
         rootParts   |-> rootParts,
         entities    |-> entities]

\* The entity strings the inputs are drawn from.
SegSrc == <<"s", "r", "c">>
SegSRC == <<"S", "R", "C">>
SegA   == <<"a">>
SegE   == <<"e">>
SegLib == <<"l", "i", "b">>
FileB  == <<"b", ".", "t", "s">>
FileC  == <<"c", ".", "t", "s">>
FileD  == <<"d", ".", "t", "s">>
FileF  == <<"f", ".", "t", "s">>
FileG  == <<"g", ".", "t", "s">>

PathSrcAB    == Join(<<SegSrc, SegA, FileB>>, Slash)            \* src/a/b.ts
PathSrcAC    == Join(<<SegSrc, SegA, FileC>>, Slash)            \* src/a/c.ts
PathSrcD     == Join(<<SegSrc, FileD>>, Slash)                  \* src/d.ts
PathB        == FileB                                           \* b.ts
PathSRCABwin == Join(<<SegSRC, SegA, FileB>>, Backslash)        \* SRC\a\b.ts
PathSRCAC    == Join(<<SegSRC, SegA, FileC>>, Slash)            \* SRC/a/c.ts
PathSrcAEF   == Join(<<SegSrc, SegA, SegE, FileF>>, Slash)      \* src/a/e/f.ts
PathSrcAEG   == Join(<<SegSrc, SegA, SegE, FileG>>, Slash)      \* src/a/e/g.ts
PathLibD     == <<Slash>> \o SegLib \o <<Slash, Slash>> \o FileD  \* /lib//d.ts
PathEmpty    == <<>>                                            \* no entity

Paths == {PathSrcAB, PathSrcAC, PathSrcD, PathB, PathSRCABwin, PathSRCAC,
          PathSrcAEF, PathSrcAEG, PathLibD, PathEmpty}

\* The heartbeats of one cluster: ascending in time, each on one entity.
GroupInputs ==
    {[i \in 1..Len(es) |-> [entity |-> es[i], time |-> i * 1000, idx |-> i]] :
        es \in SeqsUpTo(Paths, MaxGroupHeartbeats)}

\* CodeView's useMemo(() => groupHeartbeatsByFile(heartbeats)) (lines 172-175).
GroupHeartbeatsByFile ==
    /\ gPc = "input"
    /\ LET r == groupHeartbeatsByFile(gHeartbeats) IN
        /\ gEntities' = r.entities
        /\ gRootParts' = r.rootParts
        /\ gGroups' = r.groups
    /\ gPc' = "grouped"
    /\ UNCHANGED gHeartbeats
    /\ UNCHANGED <<clusterVars, hbVars, syncVars, playVars, reviewVars>>

\* ------------------------------------------------------------------------
\* Heartbeat ingestion and aggregate hours: src/src/hooks/useHeartbeatData.ts
\* ------------------------------------------------------------------------

\* bound of the submissions list
MaxSubmissions == 2

None == <<>>
Some(v) == <<v>>

Space == " "

\* String.prototype.trim
RECURSIVE TrimStart(_)
TrimStart(str) ==
    IF str # <<>> /\ Head(str) = Space THEN TrimStart(Tail(str)) ELSE str

RECURSIVE TrimEnd(_)
TrimEnd(str) ==
    IF str # <<>> /\ str[Len(str)] = Space
    THEN TrimEnd(SubSeq(str, 1, Len(str) - 1)) ELSE str

Trim(str) == TrimEnd(TrimStart(str))

\* array.includes(x)
Includes(arr, x) == \E i \in 1..Len(arr) : arr[i] = x

\* array.filter(keep) is SelectSeq(arr, keep) of the Sequences module.

\* hackatimeProjectKeys.split(",").map(key => key.trim().toLowerCase())
\*     .filter(key => key.length > 0)                       (lines 224-227)
EffectProjectKeys(keysString) ==
    LET pieces == Split(keysString, {","})
        mapped == [i \in 1..Len(pieces) |-> ToLowerCase(Trim(pieces[i]))]
    IN  FilterNonEmpty(mapped)

\* hackatimeProjectKeys.split(/[,;]/).map(x => x.toLowerCase().trim())
\*                                                    (lines 270-272, 288)
SplitProjectKeys(keysString) ==
    LET pieces == Split(keysString, {",", ";"})
    IN  [i \in 1..Len(pieces) |-> Trim(ToLowerCase(pieces[i]))]

\* The filter of lines 282-284: allSubmissions?.filter(...) ?? (...)
AuthorSubmissionsAnyApproval(all, selected) ==
    IF all # None
    THEN LET SameAuthor(sub) ==
                ToLowerCase(sub.authorEmail) = ToLowerCase(selected.authorEmail)
         IN  SelectSeq(all[1], SameAuthor)
    ELSE <<selected>>

AuthorSubmissions(all, selected) ==
    IF all # None
    THEN LET SameAuthorApproved(sub) ==
                /\ ToLowerCase(sub.authorEmail) = ToLowerCase(selected.authorEmail)
                /\ sub.approved
         IN  SelectSeq(all[1], SameAuthorApproved)
    ELSE IF selected.approved THEN <<selected>> ELSE <<>>

\* The Set built by lines 286-292.
RECURSIVE AllAuthorProjectKeys(_)
AllAuthorProjectKeys(authorSubmissions) ==
    IF authorSubmissions = <<>> THEN {}
    ELSE LET subKeys == SplitProjectKeys(Head(authorSubmissions).hackatimeProjectKeys)
         IN  {subKeys[i] : i \in {j \in 1..Len(subKeys) : subKeys[j] # <<>>}}
             \cup AllAuthorProjectKeys(Tail(authorSubmissions))

\* A per-submission sum: each submission's matching projects, concatenated.
RECURSIVE AggregateProjectsPerSubmission(_, _)
AggregateProjectsPerSubmission(allProjects, authorSubmissions) ==
    IF authorSubmissions = <<>> THEN <<>>
    ELSE LET subKeys == SplitProjectKeys(Head(authorSubmissions).hackatimeProjectKeys)
             Declared(x) == x.name # <<>> /\ Includes(subKeys, ToLowerCase(x.name))
         IN  SelectSeq(allProjects, Declared)
             \o AggregateProjectsPerSubmission(allProjects, Tail(authorSubmissions))

\* allProjects.projects.filter(x => allAuthorProjectKeys.has(x.name.toLowerCase()))
\*                                                              (line 294)
AggregateProjects(allProjects, authorSubmissions) ==
    LET allAuthorProjectKeys == AllAuthorProjectKeys(authorSubmissions)
        Has(x) == ToLowerCase(x.name) \in allAuthorProjectKeys
    IN  SelectSeq(allProjects, Has)

\* aggregateProjects.reduce((sum, p) => sum + p.total_duration, 0)  (line 295)
TotalSeconds(projects) ==
    SumSeq([i \in 1..Len(projects) |-> projects[i].total_duration])

MS_PER_DAY == 1000 * 60 * 60 * 24

\* date.setUTCHours(0, 0, 0, 0) and date.setUTCHours(23, 59, 59, 999), in ms
StartOfUTCDay(ms) == ms - (ms % MS_PER_DAY)
EndOfUTCDay(ms) == StartOfUTCDay(ms) + MS_PER_DAY - 1

\* Math.ceil(a / b) for a >= 0, b > 0
CeilDiv(a, b) == (a + b - 1) \div b

\* Math.min / Math.max over the projects' first_heartbeat / last_heartbeat
\* (lines 298-308)
MinFirstHeartbeat(projects) ==
    CHOOSE t \in {projects[i].first_heartbeat : i \in 1..Len(projects)} :
        \A i \in 1..Len(projects) : t <= projects[i].first_heartbeat
MaxLastHeartbeat(projects) ==
    CHOOSE t \in {projects[i].last_heartbeat : i \in 1..Len(projects)} :
        \A i \in 1..Len(projects) : t >= projects[i].last_heartbeat

\* The strings of the inputs
EmailA      == <<"a", "@", "h">>
EmailAUpper == <<"A", "@", "h">>
EmailB      == <<"b", "@", "h">>
Emails == {EmailA, EmailAUpper, EmailB}

NameFoo == <<"F", "o", "o">>
NameBar == <<"b", "a", "r">>
NameBaz == <<"B", "a", "z">>

KeysFoo    == NameFoo                                              \* "Foo"
KeysFooBar == <<"f", "o", "o", ";", " ", "B", "a", "r">>           \* "foo; Bar"
KeyStrings == {KeysFoo, KeysFooBar}

Submissions ==
    [authorEmail : Emails, hackatimeProjectKeys : KeyStrings, approved : BOOLEAN]

\* The time-tracking service's projects of a user (seconds; unix timestamps)
ProjectFoo == [name |-> NameFoo, total_duration |-> 3600,
               first_heartbeat |-> 100, last_heartbeat |-> 200]
ProjectBar == [name |-> NameBar, total_duration |-> 1800,
               first_heartbeat |-> 86500, last_heartbeat |-> 86600]
ProjectBaz == [name |-> NameBaz, total_duration |-> 720,
               first_heartbeat |-> 100, last_heartbeat |-> 86500]
ProjectResponses == {<<>>, <<ProjectFoo, ProjectBaz>>, <<ProjectBar, ProjectBaz>>,
                     <<ProjectFoo, ProjectBar, ProjectBaz>>}

TrustLevels == {"green", "yellow"}

\* getHeartbeatsFor responses: the heartbeats of one day, by project
DayResponses == {<<>>, <<[project |-> NameFoo], [project |-> NameBaz],
                          [project |-> NameBar]>>}

NoRun == [allProjects |-> <<>>, keys |-> <<>>, aggregateProjects |-> <<>>,
          allHeartbeats |-> <<>>, currentDate |-> 0, endDay |-> 0,
          currentDay |-> 0, totalDays |-> 0]

\* The effect runs fetchHeartbeats up to its first await (lines 213-241).
HbEffect ==
    /\ hbPc = "mount"
    /\ IF \/ ~hackatimeService
          \/ selectedSubmission.authorEmail = <<>>
          \/ Len(EffectProjectKeys(selectedSubmission.hackatimeProjectKeys)) = 0
       THEN /\ hbHeartbeats' = <<>>
            /\ hbTrustLevel' = Null
            /\ aggregatedProjectSeconds' = None
            /\ hbPc' = "done"
            /\ UNCHANGED <<hbIsLoading, hbError>>
       ELSE /\ hbIsLoading' = TRUE
            /\ hbError' = Null
            /\ hbPc' = "findIdByEmail"
            /\ UNCHANGED <<hbHeartbeats, hbTrustLevel, aggregatedProjectSeconds>>
    /\ UNCHANGED <<hackatimeService, allSubmissions, selectedSubmission, hbProgress,
                   hbUserId, hbRun>>
    /\ UNCHANGED <<hbStale, hbSelections, hbDiscarded>>
    /\ UNCHANGED <<clusterVars, groupVars, syncVars, playVars, reviewVars>>

\* findIdByEmail resolves (lines 241-252).
HbFindIdResp ==
    /\ hbPc = "findIdByEmail"
    /\ \E userId \in {None, Some(7)} :
        IF userId = None
        THEN /\ hbError' = "User not found in Hackatime"
             /\ hbHeartbeats' = <<>>
             /\ hbUserId' = None
             /\ hbTrustLevel' = Null
             /\ hbIsLoading' = FALSE
             /\ hbProgress' = None
             /\ hbPc' = "done"
        ELSE /\ hbUserId' = userId
             /\ hbPc' = "getUserInfo"
             /\ UNCHANGED <<hbError, hbHeartbeats, hbTrustLevel, hbIsLoading, hbProgress>>
    /\ UNCHANGED <<hackatimeService, allSubmissions, selectedSubmission,
                   aggregatedProjectSeconds, hbRun>>
    /\ UNCHANGED <<hbStale, hbSelections, hbDiscarded>>
    /\ UNCHANGED <<clusterVars, groupVars, syncVars, playVars, reviewVars>>

\* getUserInfo resolves (lines 254-265).
HbUserInfoResp ==
    /\ hbPc = "getUserInfo"
    /\ \E level \in TrustLevels :
        /\ hbTrustLevel' = level
        /\ hbPc' = IF level \in {"yellow", "red"} THEN "getTrustLogs" ELSE "getUserProjects"
    /\ UNCHANGED <<hackatimeService, allSubmissions, selectedSubmission, hbHeartbeats,
                   hbIsLoading, hbError, hbProgress, hbUserId,
                   aggregatedProjectSeconds, hbRun>>
    /\ UNCHANGED <<hbStale, hbSelections, hbDiscarded>>
    /\ UNCHANGED <<clusterVars, groupVars, syncVars, playVars, reviewVars>>

\* getTrustLogs resolves (lines 260-262).
HbTrustLogsResp ==
    /\ hbPc = "getTrustLogs"
    /\ hbPc' = "getUserProjects"
    /\ UNCHANGED <<hackatimeService, allSubmissions, selectedSubmission, hbHeartbeats,
                   hbIsLoading, hbError, hbProgress, hbUserId, hbTrustLevel,
                   aggregatedProjectSeconds, hbRun>>
    /\ UNCHANGED <<hbStale, hbSelections, hbDiscarded>>
    /\ UNCHANGED <<clusterVars, groupVars, syncVars, playVars, reviewVars>>

\* getUserProjects resolves: the viewed submission's projects, the aggregate,
\* the date range, and the first day's request (lines 267-327).
HbProjectsResp ==
    /\ hbPc = "getUserProjects"
    /\ \E allProjects \in ProjectResponses :
        LET keys == SplitProjectKeys(selectedSubmission.hackatimeProjectKeys)
            Declared(x) == Includes(keys, ToLowerCase(x.name))
            projects == SelectSeq(allProjects, Declared)
        IN  IF Len(projects) = 0
            THEN /\ hbError' = "No matching projects found"
                 /\ hbHeartbeats' = <<>>
                 /\ aggregatedProjectSeconds' = None
                 /\ hbIsLoading' = FALSE
                 /\ hbProgress' = None
                 /\ hbPc' = "done"
                 /\ hbRun' = [hbRun EXCEPT !.allProjects = allProjects, !.keys = keys]
            ELSE LET authorSubmissions ==
                         AuthorSubmissions(allSubmissions, selectedSubmission)
                     aggregate == AggregateProjects(allProjects, authorSubmissions)
                     currentDate == StartOfUTCDay(MinFirstHeartbeat(projects) * 1000)
                     endDay == EndOfUTCDay(MaxLastHeartbeat(projects) * 1000)
                     totalDays == CeilDiv(endDay - currentDate, MS_PER_DAY) - 1
                 IN  /\ aggregatedProjectSeconds' = Some(TotalSeconds(aggregate))
                     /\ hbProgress' = Some([current |-> 0, total |-> totalDays])
                     /\ hbRun' = [allProjects |-> allProjects, keys |-> keys,
                                  aggregateProjects |-> aggregate,
                                  allHeartbeats |-> <<>>,
                                  currentDate |-> currentDate, endDay |-> endDay,
                                  currentDay |-> 0, totalDays |-> totalDays]
                     /\ hbPc' = "getHeartbeatsFor"
                     /\ UNCHANGED <<hbError, hbHeartbeats, hbIsLoading>>
    /\ UNCHANGED <<hackatimeService, allSubmissions, selectedSubmission, hbUserId,
                   hbTrustLevel>>
    /\ UNCHANGED <<hbStale, hbSelections, hbDiscarded>>
    /\ UNCHANGED <<clusterVars, groupVars, syncVars, playVars, reviewVars>>

\* getHeartbeatsFor resolves for one day; the loop goes on or ends
\* (lines 327-364, 370-375).
HbDayResp ==
    /\ hbPc = "getHeartbeatsFor"
    /\ \E rawHeartbeats \in DayResponses :
        LET Wanted(x) == x.project # <<>> /\ Includes(hbRun.keys, ToLowerCase(x.project))
            filtered == SelectSeq(rawHeartbeats, Wanted)
            stamped == [i \in 1..Len(filtered) |->
                          [project |-> filtered[i].project, day |-> hbRun.currentDay]]
            allHeartbeats == hbRun.allHeartbeats \o stamped
            currentDate == hbRun.currentDate + MS_PER_DAY
            currentDay == hbRun.currentDay + 1
        IN  /\ hbRun' = [hbRun EXCEPT !.allHeartbeats = allHeartbeats,
                                      !.currentDate = currentDate,
                                      !.currentDay = currentDay]
            /\ IF currentDate <= hbRun.endDay
               THEN /\ hbProgress' = Some([current |-> currentDay,
                                           total |-> hbRun.totalDays])
                    /\ hbPc' = "getHeartbeatsFor"
                    /\ UNCHANGED <<hbHeartbeats, hbIsLoading>>
               ELSE /\ hbHeartbeats' = allHeartbeats
                    /\ hbIsLoading' = FALSE
                    /\ hbProgress' = None
                    /\ hbPc' = "done"
    /\ UNCHANGED <<hackatimeService, allSubmissions, selectedSubmission, hbError,
                   hbUserId, hbTrustLevel, aggregatedProjectSeconds>>
    /\ UNCHANGED <<hbStale, hbSelections, hbDiscarded>>
    /\ UNCHANGED <<clusterVars, groupVars, syncVars, playVars, reviewVars>>

\* setHeartbeats([]) of the catch block (line 369): whatever the loop had
\* accumulated, the list becomes empty.
CatchHeartbeatsPartial(allHeartbeats) == allHeartbeats

CatchHeartbeats(allHeartbeats) == <<>>

\* An awaited request rejects: catch and finally (lines 365-375).
HbRequestFails ==
    /\ hbPc \in {"findIdByEmail", "getUserInfo", "getTrustLogs", "getUserProjects",
                 "getHeartbeatsFor"}
    /\ hbError' = "Hackatime API request failed"
    /\ hbHeartbeats' = CatchHeartbeats(hbRun.allHeartbeats)
    /\ hbIsLoading' = FALSE
    /\ hbProgress' = None
    /\ hbPc' = "done"
    /\ UNCHANGED <<hackatimeService, allSubmissions, selectedSubmission, hbUserId,
                   hbTrustLevel, aggregatedProjectSeconds, hbRun>>
    /\ UNCHANGED <<hbStale, hbSelections, hbDiscarded>>
    /\ UNCHANGED <<clusterVars, groupVars, syncVars, playVars, reviewVars>>

\* ------------------------------------------------------------------------
\* Change of the viewed submission while the hook is mounted: the effect's
\* cleanup and its next run (useHeartbeatData.ts lines 212-383).
\* ------------------------------------------------------------------------

\* bound of the number of changes of the viewed submission
MaxSelections == 2

\* The submissions of the list the reviewer picks from
SubmissionA      == [authorEmail |-> EmailA, hackatimeProjectKeys |-> KeysFooBar,
                     approved |-> TRUE]
SubmissionATwin  == [authorEmail |-> EmailA, hackatimeProjectKeys |-> KeysFooBar,
                     approved |-> FALSE]
SubmissionB      == [authorEmail |-> EmailB, hackatimeProjectKeys |-> KeysFoo,
                     approved |-> TRUE]
SubmissionNoKeys == [authorEmail |-> EmailB, hackatimeProjectKeys |-> <<>>,
                     approved |-> FALSE]
IngestSubmissions == <<SubmissionA, SubmissionATwin, SubmissionB, SubmissionNoKeys>>

\* The positions at which fetchHeartbeats awaits a request
Awaiting == {"findIdByEmail", "getUserInfo", "getTrustLogs", "getUserProjects",
             "getHeartbeatsFor"}

\* The effect's dependencies differ (line 383); the service is not replaced.
DepsChanged(prev, next) ==
    \/ prev.authorEmail # next.authorEmail
    \/ prev.hackatimeProjectKeys # next.hackatimeProjectKeys

\* The effect's cleanup: cancelled = true (lines 380-382).
CleanupSkipped(run) == run

Cleanup(run) == [run EXCEPT !.cancelled = TRUE]

\* The reviewer views another submission. When the dependencies differ, the
\* cleanup of the running effect sets its cancelled flag (its pending request
\* stays in flight), and the effect runs again up to its first await.
HbSelectSubmission ==
    /\ hbPc # "mount"
    /\ allSubmissions # None
    /\ hbSelections < MaxSelections
    /\ \E next \in {allSubmissions[1][i] : i \in 1..Len(allSubmissions[1])}
                      \ {selectedSubmission} :
        /\ selectedSubmission' = next
        /\ IF DepsChanged(selectedSubmission, next)
           THEN /\ hbStale' = IF hbPc \in Awaiting
                              THEN Append(hbStale,
                                          Cleanup([pc |-> hbPc, cancelled |-> FALSE]))
                              ELSE hbStale
                /\ hbRun' = NoRun
                /\ IF \/ ~hackatimeService
                      \/ next.authorEmail = <<>>
                      \/ Len(EffectProjectKeys(next.hackatimeProjectKeys)) = 0
                   THEN /\ hbHeartbeats' = <<>>
                        /\ hbTrustLevel' = Null
                        /\ aggregatedProjectSeconds' = None
                        /\ hbPc' = "done"
                        /\ UNCHANGED <<hbIsLoading, hbError>>
                   ELSE /\ hbIsLoading' = TRUE
                        /\ hbError' = Null
                        /\ hbPc' = "findIdByEmail"
                        /\ UNCHANGED <<hbHeartbeats, hbTrustLevel,
                                       aggregatedProjectSeconds>>
           ELSE UNCHANGED <<hbStale, hbRun, hbHeartbeats, hbTrustLevel,
                            aggregatedProjectSeconds, hbPc, hbIsLoading, hbError>>
    /\ hbSelections' = hbSelections + 1
    /\ UNCHANGED <<hackatimeService, allSubmissions, hbProgress, hbUserId, hbDiscarded>>
    /\ UNCHANGED <<clusterVars, groupVars, syncVars, playVars, reviewVars>>

\* s without its i-th element
RemoveAt(s, i) == SubSeq(s, 1, i - 1) \o SubSeq(s, i + 1, Len(s))

\* A request of an earlier run settles. A cancelled run returns at the
\* "if (cancelled) return" after its await (lines 242, 255, 261, 268, 328) or
\* in the catch block (line 366), and its finally block sets nothing (line
\* 371). A run whose flag is not set handles a rejection as lines 365-375 do.
HbStaleSettles ==
    /\ \E i \in 1..Len(hbStale) :
        /\ hbStale' = RemoveAt(hbStale, i)
        /\ IF hbStale[i].cancelled
           THEN UNCHANGED <<hbError, hbHeartbeats, hbIsLoading, hbProgress>>
           ELSE /\ hbError' = "Hackatime API request failed"
                /\ hbHeartbeats' = CatchHeartbeats(<<>>)
                /\ hbIsLoading' = FALSE
                /\ hbProgress' = None
    /\ hbDiscarded' = hbDiscarded + 1
    /\ UNCHANGED <<hackatimeService, allSubmissions, selectedSubmission, hbPc,
                   hbUserId, hbTrustLevel, aggregatedProjectSeconds, hbRun,
                   hbSelections>>
    /\ UNCHANGED <<clusterVars, groupVars, syncVars, playVars, reviewVars>>

\* ------------------------------------------------------------------------
\* Hour-sync: src/src/hooks/useSubmissionActions.ts (handleSyncFromHackatime),
\* with the onUpdate callback MainLayout passes and useSubmissionData.
\* Hours are kept in tenths of an hour.
\* ------------------------------------------------------------------------

\* haystack.includes(needle)
StringIncludes(haystack, needle) ==
    \E i \in 1..(Len(haystack) + 1) :
        /\ i + Len(needle) - 1 <= Len(haystack)
        /\ SubSeq(haystack, i, i + Len(needle) - 1) = needle

\* Math.round(x * 10) / 10 for x = seconds / 3600, in tenths of an hour
RoundToTenths(seconds) == (seconds + 180) \div 360

\* submission.hackatimeProjectKeys.split(",").map(key => key.trim())   (line 75)
SyncProjectKeys(keysString) ==
    LET pieces == Split(keysString, {","})
    IN  [i \in 1..Len(pieces) |-> Trim(pieces[i])]

\* The predicate of lines 85-88.
ProjectMatches(p, projectKey) ==
    \/ StringIncludes(ToLowerCase(p.name), ToLowerCase(projectKey))
    \/ StringIncludes(ToLowerCase(projectKey), ToLowerCase(p.name))

\* userProjects.projects.find(...): the first match, as <<p>>, or <<>>
FindMatchingProject(projects, projectKey) ==
    LET hits == {i \in 1..Len(projects) : ProjectMatches(projects[i], projectKey)}
    IN  IF hits = {} THEN None
        ELSE Some(projects[CHOOSE i \in hits : \A j \in hits : i <= j])

\* The loop of lines 84-94, from key k on.
RECURSIVE MatchProjects(_, _, _, _)
MatchProjects(projects, projectKeys, k, acc) ==
    IF k > Len(projectKeys) THEN acc
    ELSE LET matchingProject == FindMatchingProject(projects, projectKeys[k]) IN
         IF matchingProject # None
         THEN MatchProjects(projects, projectKeys, k + 1,
                [totalSeconds |-> acc.totalSeconds + matchingProject[1].total_duration,
                 matchedProjects |-> Append(acc.matchedProjects,
                    [key |-> projectKeys[k],
                     hours |-> RoundToTenths(matchingProject[1].total_duration)])])
         ELSE MatchProjects(projects, projectKeys, k + 1, acc)

\* The guard of line 98: totalHours > 0.
ShouldUpdateAlways(totalSeconds) == totalSeconds >= 0

ShouldUpdate(totalSeconds) == totalSeconds > 0

\* The justification of lines 101-107.
Justification(matchedProjects, roundedHours) ==
    IF Len(matchedProjects) = 1
    THEN [kind |-> "hours", hours |-> <<matchedProjects[1].hours>>, total |-> 0]
    ELSE [kind |-> "sum",
          hours |-> [i \in 1..Len(matchedProjects) |-> matchedProjects[i].hours],
          total |-> roundedHours]

JustificationEmpty  == [kind |-> "empty", hours |-> <<>>, total |-> 0]
JustificationManual == [kind |-> "manual", hours |-> <<>>, total |-> 0]

KeysNone     == <<>>                                             \* ""
KeysQux      == <<"q", "u", "x">>                                \* "qux"
KeysFooComma == <<"F", "o", "o", ",">>                           \* "Foo,"
KeysFooBarSp == <<"f", "o", "o", ",", " ", "B", "a", "r">>       \* "foo, Bar"
KeysBa       == <<"b", "a">>                                     \* "ba"
SyncKeyStrings == {KeysNone, KeysQux, KeysFoo, KeysFooComma, KeysFooBarSp, KeysBa}

SyncSubmissions ==
    [authorEmail : {EmailA}, hackatimeProjectKeys : SyncKeyStrings,
     hoursSpent : {0, 25}, hoursSpentJustification : {JustificationEmpty,
                                                      JustificationManual}]

NoSyncRun == [projects |-> <<>>, projectKeys |-> <<>>, matchedProjects |-> <<>>,
              totalSeconds |-> 0, received |-> FALSE]

\* The reviewer presses Sync: handleSyncFromHackatime up to its first await
\* (lines 72-77; the HackatimeService constructor throws on a key that is not
\* an admin key).
SyncFromHackatime ==
    /\ syncPc = "idle"
    /\ syncPc' =
         IF hackatimeAdminKey = "none" \/ syncSubmission.hackatimeProjectKeys = <<>>
         THEN "done"
         ELSE IF hackatimeAdminKey = "invalid" THEN "rejected"
         ELSE "findIdByEmail"
    /\ syncRun' = [syncRun EXCEPT
                     !.projectKeys = SyncProjectKeys(syncSubmission.hackatimeProjectKeys)]
    /\ UNCHANGED <<hackatimeAdminKey, syncSubmission, subHoursSpent,
                   subHoursSpentJustification, localHoursSpent,
                   localHoursSpentJustification, syncUpdateCalls, pendingWrites>>
    /\ UNCHANGED <<clusterVars, groupVars, hbVars, playVars, reviewVars>>

\* findIdByEmail resolves (lines 77-78).
SyncFindIdResp ==
    /\ syncPc = "findIdByEmail"
    /\ \E userId \in {None, Some(7)} :
        syncPc' = IF userId = None THEN "done" ELSE "getUserProjects"
    /\ UNCHANGED <<hackatimeAdminKey, syncSubmission, subHoursSpent,
                   subHoursSpentJustification, localHoursSpent,
                   localHoursSpentJustification, syncRun, syncUpdateCalls,
                   pendingWrites>>
    /\ UNCHANGED <<clusterVars, groupVars, hbVars, playVars, reviewVars>>

\* getUserProjects resolves: the matching loop, and onUpdate when the total is
\* positive (lines 80-110); onUpdate is MainLayout's callback (part_014 lines
\* 395-399): it sets the local hours and justification and calls
\* updateHoursSpent, which starts submission.update({ hoursSpent }).
SyncProjectsResp ==
    /\ syncPc = "getUserProjects"
    /\ \E projects \in ProjectResponses :
        LET m == MatchProjects(projects, syncRun.projectKeys, 1,
                               [totalSeconds |-> 0, matchedProjects |-> <<>>])
            roundedHours == RoundToTenths(m.totalSeconds)
        IN  /\ syncRun' = [syncRun EXCEPT !.projects = projects,
                                          !.matchedProjects = m.matchedProjects,
                                          !.totalSeconds = m.totalSeconds,
                                          !.received = TRUE]
            /\ IF ShouldUpdate(m.totalSeconds)
               THEN /\ localHoursSpent' = roundedHours
                    /\ localHoursSpentJustification' =
                           Justification(m.matchedProjects, roundedHours)
                    /\ pendingWrites' = Append(pendingWrites,
                           [field |-> "hoursSpent", hours |-> roundedHours,
                            justification |-> JustificationEmpty])
                    /\ syncUpdateCalls' = syncUpdateCalls + 1
               ELSE UNCHANGED <<localHoursSpent, localHoursSpentJustification,
                                pendingWrites, syncUpdateCalls>>
    /\ syncPc' = "done"
    /\ UNCHANGED <<hackatimeAdminKey, syncSubmission, subHoursSpent,
                   subHoursSpentJustification>>
    /\ UNCHANGED <<clusterVars, groupVars, hbVars, playVars, reviewVars>>

\* An awaited request of the sync rejects: the handler's promise rejects.
SyncRequestFails ==
    /\ syncPc \in {"findIdByEmail", "getUserProjects"}
    /\ syncPc' = "rejected"
    /\ UNCHANGED <<hackatimeAdminKey, syncSubmission, subHoursSpent,
                   subHoursSpentJustification, localHoursSpent,
                   localHoursSpentJustification, syncRun, syncUpdateCalls,
                   pendingWrites>>
    /\ UNCHANGED <<clusterVars, groupVars, hbVars, playVars, reviewVars>>

\* The debounce effect of useSubmissionData (lines 442-452): when the local
\* justification differs from the submission's, it starts
\* submission.update({ hoursSpentJustification }).
JustificationDebounce ==
    /\ localHoursSpentJustification # subHoursSpentJustification
    /\ ~\E i \in 1..Len(pendingWrites) :
          /\ pendingWrites[i].field = "hoursSpentJustification"
          /\ pendingWrites[i].justification = localHoursSpentJustification
    /\ pendingWrites' = Append(pendingWrites,
           [field |-> "hoursSpentJustification", hours |-> 0,
            justification |-> localHoursSpentJustification])
    /\ UNCHANGED <<hackatimeAdminKey, syncSubmission, subHoursSpent,
                   subHoursSpentJustification, localHoursSpent,
                   localHoursSpentJustification, syncPc, syncRun, syncUpdateCalls>>
    /\ UNCHANGED <<clusterVars, groupVars, hbVars, playVars, reviewVars>>

\* The data service answers the oldest submission.update: on success the
\* submission takes the written field (submission.ts lines 201-216); on failure
\* update throws and the fields stay.
SubmissionUpdateResp ==
    /\ pendingWrites # <<>>
    /\ \E ok \in BOOLEAN :
        LET w == Head(pendingWrites) IN
        /\ subHoursSpent' =
             IF ok /\ w.field = "hoursSpent" THEN w.hours ELSE subHoursSpent
        /\ subHoursSpentJustification' =
             IF ok /\ w.field = "hoursSpentJustification"
             THEN w.justification ELSE subHoursSpentJustification
    /\ pendingWrites' = Tail(pendingWrites)
    /\ UNCHANGED <<hackatimeAdminKey, syncSubmission, localHoursSpent,
                   localHoursSpentJustification, syncPc, syncRun, syncUpdateCalls>>
    /\ UNCHANGED <<clusterVars, groupVars, hbVars, playVars, reviewVars>>

\* ------------------------------------------------------------------------
\* The playback view: src/src/components/ui/CodeView.tsx (the CodeView
\* component), and the fetched-source cache of GitHubService
\* (src/src/services/airtable.ts). Every handler is followed by the renders
\* and effect runs its state change causes.
\* ------------------------------------------------------------------------

\* bounds: GitHub requests in flight, replacements of the heartbeats prop,
\* and the clock, in cache lifetimes
MaxRequests == 2
MaxPropChanges == 1
MaxLifetimes == 1

CONTEXT_LINES == 10

CACHE_TTL == 5 * 60 * 1000

Newline == "\n"

\* The characters with the codes 32..95 and 97..126, in code order
AsciiTo95 ==
    <<" ", "!", "\"", "#", "$", "%", "&", "'", "(", ")", "*", "+",
      ",", "-", ".", "/", "0", "1", "2", "3", "4", "5", "6", "7",
      "8", "9", ":", ";", "<", "=", ">", "?", "@", "A", "B", "C",
      "D", "E", "F", "G", "H", "I", "J", "K", "L", "M", "N", "O",
      "P", "Q", "R", "S", "T", "U", "V", "W", "X", "Y", "Z", "[",
      "\\", "]", "^", "_">>
AsciiFrom97 ==
    <<"a", "b", "c", "d", "e", "f", "g", "h", "i", "j", "k", "l",
      "m", "n", "o", "p", "q", "r", "s", "t", "u", "v", "w", "x",
      "y", "z", "{", "|", "}", "~">>

\* String.fromCharCode for the codes that occur: newline, 32..95 and 97..126
FromCharCode(code) ==
    IF code = 10 THEN Newline
    ELSE IF code <= 95 THEN AsciiTo95[code - 31]
    ELSE AsciiFrom97[code - 96]

Base64Alphabet ==
    <<       "A", "B", "C", "D", "E", "F", "G", "H", "I", "J", "K", "L", "M",
           "N", "O", "P", "Q", "R", "S", "T", "U", "V", "W", "X", "Y", "Z",
           "a", "b", "c", "d", "e", "f", "g", "h", "i", "j", "k", "l", "m",
           "n", "o", "p", "q", "r", "s", "t", "u", "v", "w", "x", "y", "z",
           "0", "1", "2", "3", "4", "5", "6", "7", "8", "9", "+", "/">>

Base64Value(c) == CHOOSE n \in 0..63 : Base64Alphabet[n + 1] = c

\* str.replace(/\n/g, "")
RECURSIVE RemoveNewlines(_)
RemoveNewlines(str) ==
    IF str = <<>> THEN <<>>
    ELSE IF Head(str) = Newline THEN RemoveNewlines(Tail(str))
    ELSE <<Head(str)>> \o RemoveNewlines(Tail(str))

\* atob: every four characters give up to three bytes; "=" pads
RECURSIVE Atob(_)
Atob(str) ==
    IF Len(str) < 4 THEN <<>>
    ELSE LET a == Base64Value(str[1])
             b == Base64Value(str[2])
             c == IF str[3] = "=" THEN 0 ELSE Base64Value(str[3])
             d == IF str[4] = "=" THEN 0 ELSE Base64Value(str[4])
             b1 == a * 4 + (b \div 16)
             b2 == (b % 16) * 16 + (c \div 4)
             b3 == (c % 4) * 64 + d
         IN  <<FromCharCode(b1)>>
             \o (IF str[3] = "=" THEN <<>> ELSE <<FromCharCode(b2)>>)
             \o (IF str[4] = "=" THEN <<>> ELSE <<FromCharCode(b3)>>)
             \o Atob(SubSeq(str, 5, Len(str)))

\* The content of a GitHubFileContent (airtable.ts lines 243-248)
DecodeContent(data) ==
    IF data.encoding = "base64" THEN Atob(RemoveNewlines(data.content))
    ELSE data.content

\* gitHubInfo: the owner and repository parsed from codeUrl
GitHubInfo == [owner |-> <<"o">>, repo |-> <<"r">>]

BranchMain == <<"m", "a", "i", "n">>
BranchDev  == <<"d", "e", "v">>

\* selectedFileGroup.heartbeats[0]?.branch || "main"   (lines 188, 201)
BranchOf(group) ==
    IF Len(group.heartbeats) > 0 /\ group.heartbeats[1].branch # <<>>
    THEN group.heartbeats[1].branch
    ELSE BranchMain

\* fetchKey (lines 187-189): <<key>>, or <<>> for null
FetchKeyOf(sel) ==
    IF sel = None THEN None
    ELSE Some(Join(<<GitHubInfo.owner, GitHubInfo.repo, sel[1].relativePath,
                     BranchOf(sel[1])>>, Slash))

\* `file:${owner}/${repo}/${path}@${ref}`   (airtable.ts line 231)
CacheKeyOf(owner, repo, path, ref) ==
    <<"f", "i", "l", "e", ":">> \o owner \o <<Slash>> \o repo \o <<Slash>> \o path
        \o <<"@">> \o ref

\* cached && Date.now() - cached.timestamp < this.CACHE_TTL   (lines 233-234)
CacheValidInclusive(c, key, t) ==
    /\ c[key] # None
    /\ t - c[key][1].timestamp <= CACHE_TTL

CacheValid(c, key, t) ==
    /\ c[key] # None
    /\ t - c[key][1].timestamp < CACHE_TTL

\* The state the callback of lines 211-218 sets for a content (<<>> for null)
ThenStateKeepsLoading(content, fetchKey, relativePath) ==
    IF content # None /\ content[1] # <<>>
    THEN [content |-> content, isLoading |-> FALSE, error |-> None,
          key |-> Some(fetchKey)]
    ELSE [content |-> None, isLoading |-> TRUE,
          error |-> Some(<<"Could not fetch file: ", relativePath>>),
          key |-> Some(fetchKey)]

ThenState(content, fetchKey, relativePath) ==
    IF content # None /\ content[1] # <<>>
    THEN [content |-> content, isLoading |-> FALSE, error |-> None,
          key |-> Some(fetchKey)]
    ELSE [content |-> None, isLoading |-> FALSE,
          error |-> Some(<<"Could not fetch file: ", relativePath>>),
          key |-> Some(fetchKey)]

\* The selection reconciliation of the render (lines 177-185)
Reconcile(v) ==
    LET validSelectedGroup ==
            IF /\ v.sel # None
               /\ \E k \in 1..Len(v.groups) : v.groups[k].entity = v.sel[1].entity
            THEN v.sel
            ELSE IF Len(v.groups) > 0 THEN Some(v.groups[1]) ELSE None
    IN  IF validSelectedGroup # v.sel
        THEN [v EXCEPT !.sel = validSelectedGroup, !.idx = 0]
        ELSE v

\* The dependencies of the fetch effect (line 227); gitHubInfo does not change
EffectDeps(v) == <<FetchKeyOf(v.sel), v.sel, v.fs.key, v.fs.isLoading>>

\* The cleanup of the previous effect run: cancelled = true (lines 224-226).
\* Only the latest run can still be uncancelled.
CancelRuns(reqs) == [i \in 1..Len(reqs) |-> [reqs[i] EXCEPT !.cancelled = TRUE]]

\* One run of the fetch effect (lines 191-227) with the microtasks it queues:
\* the loading state (204-207) and, when getFileAtCommit answers from the
\* cache (airtable.ts 233-236), the callback of lines 211-218.
FetchEffect(v) ==
    LET fetchKey == FetchKeyOf(v.sel)
        cleaned == [v EXCEPT !.reqs = CancelRuns(v.reqs)]
    IN  IF v.sel = None \/ fetchKey = None THEN cleaned
        ELSE IF v.fs.key = fetchKey /\ ~v.fs.isLoading THEN cleaned
        ELSE LET branch == BranchOf(v.sel[1])
                 relativePath == v.sel[1].relativePath
                 cacheKey == CacheKeyOf(GitHubInfo.owner, GitHubInfo.repo,
                                        relativePath, branch)
             IN  IF CacheValid(v.cache, cacheKey, v.now)
                 THEN [cleaned EXCEPT !.fs = ThenState(Some(v.cache[cacheKey][1].content),
                                                       fetchKey[1], relativePath)]
                 ELSE [cleaned EXCEPT
                          !.fs = [content |-> None, isLoading |-> TRUE,
                                  error |-> None, key |-> fetchKey],
                          !.reqs = Append(cleaned.reqs,
                                          [path |-> relativePath, ref |-> branch,
                                           fetchKey |-> fetchKey[1],
                                           cancelled |-> FALSE])]

\* Render and run the effect until the dependencies are those it last ran with
RECURSIVE Settle(_)
Settle(v) ==
    LET r == Reconcile(v)
        deps == Some(EffectDeps(r))
    IN  IF deps = r.deps THEN r
        ELSE Settle(FetchEffect([r EXCEPT !.deps = deps]))

\* currentHeartbeats (line 233)
CurrentHeartbeats(sel) == IF sel = None THEN <<>> ELSE sel[1].heartbeats

\* The handlers of lines 261-278 and 313-316, on the component's state
handlePrevious(v) == [v EXCEPT !.idx = Max(0, v.idx - 1)]

handleNextStopsPlayback(v) ==
    [v EXCEPT !.idx = Min(Len(CurrentHeartbeats(v.sel)) - 1, v.idx + 1),
              !.playing = FALSE]

handleNext(v) == [v EXCEPT !.idx = Min(Len(CurrentHeartbeats(v.sel)) - 1, v.idx + 1)]

handleSliderChange(v, value) == [v EXCEPT !.idx = value]

togglePlaybackNoRestart(v) == [v EXCEPT !.playing = ~v.playing]

togglePlayback(v) ==
    [v EXCEPT !.idx = IF v.idx >= Len(CurrentHeartbeats(v.sel)) - 1 THEN 0 ELSE v.idx,
              !.playing = ~v.playing]

\* The select's onChange: fileGroups.find(...) and setSelectedFileGroup
selectOnChange(v, entity) ==
    LET hits == {k \in 1..Len(v.groups) : v.groups[k].entity = entity}
    IN  [v EXCEPT !.sel = IF hits = {} THEN None
                          ELSE Some(v.groups[CHOOSE k \in hits : \A j \in hits : k <= j])]

\* The interval callback of lines 239-247
intervalTick(v) ==
    IF v.idx >= Len(CurrentHeartbeats(v.sel)) - 1
    THEN [v EXCEPT !.playing = FALSE]
    ELSE [v EXCEPT !.idx = v.idx + 1]

\* The heartbeats handed to CodeView: entity, time, branch, line, cursor
PlayHeartbeat(entity, time, branch, lineno, cursorpos) ==
    [entity |-> entity, time |-> time, branch |-> branch, lineno |-> lineno,
     cursorpos |-> cursorpos]

\* src/a/b.ts three times (the first without a branch) and src/a/c.ts once
HeartbeatsOne ==
    <<PlayHeartbeat(PathSrcAB, 1000, <<>>, 1, 0),
      PlayHeartbeat(PathSrcAB, 2000, BranchDev, 1, 1),
      PlayHeartbeat(PathSrcAB, 3000, BranchDev, 2, 5),
      PlayHeartbeat(PathSrcAC, 4000, BranchDev, 2, 1)>>

\* src/d.ts twice and src/a/b.ts once
HeartbeatsTwo ==
    <<PlayHeartbeat(PathSrcD, 1000, BranchDev, 3, 0),
      PlayHeartbeat(PathSrcAB, 2000, BranchDev, 1, 1),
      PlayHeartbeat(PathSrcD, 3000, BranchDev, 1, 2)>>

PlayInputs == {HeartbeatsOne, HeartbeatsTwo}

\* What the GitHub contents API answers: <<>> for a 404 or a failed request
\* (fetchWithCache returns null), or a GitHubFileContent; the file is "ab\nc".
ContentBase64 == <<"Y", "W", "I", "K", Newline, "Y", "w", "=", "=", Newline>>
ContentPlain  == <<"a", "b", Newline, "c">>
GitHubResponses ==
    {None, Some([encoding |-> "base64", content |-> ContentBase64]),
           Some([encoding |-> "utf-8", content |-> ContentPlain])}

\* The cache keys of the files the inputs can make the view fetch
CacheKeys ==
    UNION {{CacheKeyOf(GitHubInfo.owner, GitHubInfo.repo, g.relativePath, BranchOf(g)) :
              g \in {groupHeartbeatsByFile(hbs).groups[k] :
                        k \in 1..Len(groupHeartbeatsByFile(hbs).groups)}} :
           hbs \in PlayInputs}

NoFetch == [content |-> None, isLoading |-> FALSE, error |-> None, key |-> None]
EmptyCache == [k \in CacheKeys |-> None]
NoEvent == [event |-> "none", index |-> 0]

\* What the render derives (lines 229-234, 298-302)
FileContent ==
    IF fetchState.key = FetchKeyOf(selectedFileGroup) THEN fetchState.content ELSE None
IsLoadingContent ==
    \/ fetchState.isLoading
    \/ FetchKeyOf(selectedFileGroup) # None /\ fetchState.key # FetchKeyOf(selectedFileGroup)
LoadError ==
    IF fetchState.key = FetchKeyOf(selectedFileGroup) THEN fetchState.error ELSE None
CurrentHeartbeat ==
    LET currentHeartbeats == CurrentHeartbeats(selectedFileGroup)
    IN  IF currentIndex + 1 \in 1..Len(currentHeartbeats)
        THEN Some(currentHeartbeats[currentIndex + 1]) ELSE None
Lines ==
    IF FileContent = None \/ FileContent[1] = <<>> THEN <<>>
    ELSE Split(FileContent[1], {Newline})
TargetLine ==
    IF CurrentHeartbeat # None /\ CurrentHeartbeat[1].lineno # 0
    THEN CurrentHeartbeat[1].lineno ELSE 1
StartLine == Max(1, TargetLine - CONTEXT_LINES)
EndLine == Min(Len(Lines), TargetLine + CONTEXT_LINES)
VisibleLines == SubSeq(Lines, StartLine, EndLine)

\* The code block is rendered (lines 280-296, 404-408)
CodeShown ==
    /\ Len(fileGroups) > 0
    /\ ~IsLoadingContent
    /\ FileContent # None
    /\ FileContent[1] # <<>>

\* One line of the code block (lines 419-450): the text before the marker,
\* the marked character (<<>> when the line is rendered plain), the text after
RenderLine(line, lineNum) ==
    LET isHighlighted == lineNum = TargetLine
        cursorInLine == /\ isHighlighted
                        /\ CurrentHeartbeat # None
                        /\ CurrentHeartbeat[1].cursorpos # 0
    IN  IF cursorInLine
        THEN LET cursorpos == CurrentHeartbeat[1].cursorpos IN
             [lineNum |-> lineNum, isHighlighted |-> isHighlighted,
              before |-> SliceTo(line, cursorpos),
              marked |-> Some(IF cursorpos < Len(line) THEN line[cursorpos + 1]
                              ELSE Space),
              after |-> SliceFrom(line, cursorpos + 1)]
        ELSE [lineNum |-> lineNum, isHighlighted |-> isHighlighted,
              before |-> IF line = <<>> THEN <<Space>> ELSE line,
              marked |-> None, after |-> <<>>]

RenderedLines ==
    IF CodeShown
    THEN [idx \in 1..Len(VisibleLines) |-> RenderLine(VisibleLines[idx], StartLine + idx - 1)]
    ELSE <<>>

\* The component's state, and its state after a handler and the renders and
\* effect runs that follow it
View ==
    [groups |-> fileGroups, sel |-> selectedFileGroup, idx |-> currentIndex,
     playing |-> isPlaying, fs |-> fetchState, reqs |-> pRequests, cache |-> cache,
     deps |-> pDeps, now |-> now]

Commit(r, event) ==
    /\ fileGroups' = r.groups
    /\ selectedFileGroup' = r.sel
    /\ currentIndex' = r.idx
    /\ isPlaying' = r.playing
    /\ fetchState' = r.fs
    /\ pRequests' = r.reqs
    /\ cache' = r.cache
    /\ pDeps' = r.deps
    /\ pLast' = [event |-> event, index |-> currentIndex]

\* The controls are rendered (lines 280-296)
ControlsShown == pLast.event # "none" /\ Len(fileGroups) > 0

\* The first render and effect run (lines 151-227).
PvMount ==
    /\ pLast.event = "none"
    /\ Commit(Settle([View EXCEPT
                        !.groups = groupHeartbeatsByFile(pHeartbeats).groups]),
              "mount")
    /\ UNCHANGED <<pHeartbeats, now, pPropChanges>>
    /\ UNCHANGED <<clusterVars, groupVars, hbVars, syncVars, reviewVars>>

\* The parent hands over the heartbeats of another cluster (lines 172-185).
PvHeartbeatsChange ==
    /\ pLast.event # "none"
    /\ pPropChanges < MaxPropChanges
    /\ Len(pRequests) + 2 <= MaxRequests
    /\ \E hbs \in PlayInputs \ {pHeartbeats} :
        /\ pHeartbeats' = hbs
        /\ Commit(Settle([View EXCEPT !.groups = groupHeartbeatsByFile(hbs).groups]),
                  "heartbeats")
    /\ pPropChanges' = pPropChanges + 1
    /\ UNCHANGED now
    /\ UNCHANGED <<clusterVars, groupVars, hbVars, syncVars, reviewVars>>

\* The reviewer picks another file in the select (lines 310-317).
PvSelectGroup ==
    /\ ControlsShown
    /\ Len(pRequests) + 2 <= MaxRequests
    /\ \E k \in 1..Len(fileGroups) :
        /\ selectedFileGroup = None \/ fileGroups[k].entity # selectedFileGroup[1].entity
        /\ Commit(Settle(selectOnChange(View, fileGroups[k].entity)), "select")
    /\ UNCHANGED <<pHeartbeats, now, pPropChanges>>
    /\ UNCHANGED <<clusterVars, groupVars, hbVars, syncVars, reviewVars>>

\* The step buttons and the slider (lines 261-271, 334-366).
PvPrevious ==
    /\ ControlsShown
    /\ currentIndex # 0
    /\ Commit(Settle(handlePrevious(View)), "previous")
    /\ UNCHANGED <<pHeartbeats, now, pPropChanges>>
    /\ UNCHANGED <<clusterVars, groupVars, hbVars, syncVars, reviewVars>>

PvNext ==
    /\ ControlsShown
    /\ ~(currentIndex >= Len(CurrentHeartbeats(selectedFileGroup)) - 1)
    /\ Commit(Settle(handleNext(View)), "next")
    /\ UNCHANGED <<pHeartbeats, now, pPropChanges>>
    /\ UNCHANGED <<clusterVars, groupVars, hbVars, syncVars, reviewVars>>

PvSlider ==
    /\ ControlsShown
    /\ \E value \in 0..Max(0, Len(CurrentHeartbeats(selectedFileGroup)) - 1) :
        /\ value # currentIndex
        /\ Commit(Settle(handleSliderChange(View, value)), "slider")
    /\ UNCHANGED <<pHeartbeats, now, pPropChanges>>
    /\ UNCHANGED <<clusterVars, groupVars, hbVars, syncVars, reviewVars>>

\* The play / pause button (lines 273-278, 343).
PvTogglePlayback ==
    /\ ControlsShown
    /\ Commit(Settle(togglePlayback(View)), "toggle")
    /\ UNCHANGED <<pHeartbeats, now, pPropChanges>>
    /\ UNCHANGED <<clusterVars, groupVars, hbVars, syncVars, reviewVars>>

\* The interval of the auto-advance effect fires (lines 236-250).
PvTick ==
    /\ pLast.event # "none"
    /\ isPlaying
    /\ Len(CurrentHeartbeats(selectedFileGroup)) # 0
    /\ Commit(Settle(intervalTick(View)), "tick")
    /\ UNCHANGED <<pHeartbeats, now, pPropChanges>>
    /\ UNCHANGED <<clusterVars, groupVars, hbVars, syncVars, reviewVars>>

\* A GitHub request is answered: getFileAtCommit stores the content
\* (airtable.ts lines 239-251) and the callback of the effect run sets the
\* state unless the run was cancelled (CodeView.tsx lines 211-218).
PvFetchSettles ==
    /\ \E i \in 1..Len(pRequests), data \in GitHubResponses :
        LET req == pRequests[i]
            cacheKey == CacheKeyOf(GitHubInfo.owner, GitHubInfo.repo, req.path, req.ref)
            content == IF data = None THEN None ELSE Some(DecodeContent(data[1]))
            answered ==
                [View EXCEPT
                    !.reqs = RemoveAt(pRequests, i),
                    !.cache = IF data = None THEN cache
                              ELSE [cache EXCEPT ![cacheKey] =
                                      Some([content |-> content[1], timestamp |-> now])],
                    !.fs = IF req.cancelled THEN fetchState
                           ELSE ThenState(content, req.fetchKey, req.path)]
        IN  Commit(Settle(answered), "response")
    /\ UNCHANGED <<pHeartbeats, now, pPropChanges>>
    /\ UNCHANGED <<clusterVars, groupVars, hbVars, syncVars, reviewVars>>

\* Time passes: just under, or exactly, one cache lifetime.
PvTimePasses ==
    /\ pLast.event # "none"
    /\ \E d \in {CACHE_TTL - 1, CACHE_TTL} :
        /\ now + d <= MaxLifetimes * CACHE_TTL
        /\ now' = now + d
    /\ pLast' = [event |-> "time", index |-> currentIndex]
    /\ UNCHANGED <<pHeartbeats, fileGroups, selectedFileGroup, currentIndex, isPlaying,
                   fetchState, pRequests, cache, pDeps, pPropChanges>>
    /\ UNCHANGED <<clusterVars, groupVars, hbVars, syncVars, reviewVars>>

\* ------------------------------------------------------------------------
\* Delta plots: computeDeltas (src/unnamed/part_004)
\* ------------------------------------------------------------------------

MaxDeltaHeartbeats == 3

\* Math.abs
AbsSigned(n) == n

Abs(n) == IF n < 0 THEN 0 - n ELSE n

\* A heartbeat of the delta plots: time in ms since the epoch, line, cursor
DeltaHeartbeat(time, lineno, cursorpos) ==
    [time |-> time, lineno |-> lineno, cursorpos |-> cursorpos]

DeltaHeartbeats ==
    {DeltaHeartbeat(0, 10, 3), DeltaHeartbeat(5000, 12, 40),
     DeltaHeartbeat(12000, 9, 5), DeltaHeartbeat(5500, 10, 3),
     DeltaHeartbeat(0, 12, 5)}

\* deltaT is (curr.time.getTime() - prev.time.getTime()) / 1000, a number of
\* seconds with a fraction; it is held here in thousandths of a second.
RECURSIVE DeltasFrom(_, _, _)
DeltasFrom(heartbeats, i, deltas) ==
    IF ~(i < Len(heartbeats)) THEN deltas
    ELSE LET prev == heartbeats[i]
             curr == heartbeats[i + 1]
         IN  DeltasFrom(heartbeats, i + 1,
                 Append(deltas,
                        [index |-> i,
                         deltaT |-> curr.time - prev.time,
                         deltaL |-> Abs(curr.lineno - prev.lineno),
                         deltaC |-> Abs(curr.cursorpos - prev.cursorpos)]))

computeDeltas(heartbeats) ==
    IF Len(heartbeats) < 2 THEN <<>> ELSE DeltasFrom(heartbeats, 1, <<>>)

\* DeltaPlotView computes the deltas of its heartbeats (useMemo, line 679).
ComputeDeltas ==
    /\ dPc = "input"
    /\ dDeltas' = computeDeltas(dHeartbeats)
    /\ dPc' = "computed"
    /\ UNCHANGED dHeartbeats
    /\ UNCHANGED <<clusterVars, groupVars, hbVars, syncVars, playVars, rvVars>>

\* ------------------------------------------------------------------------
\* Submission writes and review actions
\* (YswsSubmission.update / updateCustomField, useSubmissionActions,
\*  useSubmissionData, and their wiring in MainLayout)
\* ------------------------------------------------------------------------

\* Bound of the review session: the number of things the reviewer does
\* (selections, edits, button presses)
MaxReviewEvents == 3

RecordIds == {"recA", "recB"}

\* A text is held as a token naming the submission it belongs to and where
\* it came from: "stored" (read from the record), "typed" (entered by the
\* reviewer while that submission was selected) or "sync" (the justification
\* the hour-sync composed for that submission).
Text(of, kind, n) == [of |-> of, kind |-> kind, n |-> n]
EmptyText == Text("none", "empty", 0)
UndefinedText == Text("none", "undefined", 0)

\* What the reviewer types into a field of the selected submission: a text
\* that differs from the one the field shows
TypedText(sub, shown) ==
    IF shown = Text(sub, "typed", 0) THEN Text(sub, "typed", 1)
    ELSE Text(sub, "typed", 0)

\* `value || ""` and `value || 0` of the load timer
OrEmpty(text) == IF text = UndefinedText THEN EmptyText ELSE text

\* Truthiness of a string field: undefined and "" are falsy
IsTruthyText(text) == text # UndefinedText /\ text # EmptyText

\* Integration settings of the session: the data service of the submission
\* objects, the two optional columns of the base settings, the admin key.
ReviewConfigs ==
    { [airtableService |-> TRUE,  rejectedColumn |-> TRUE,
       hackatimeProjectsColumn |-> TRUE,  hackatimeAdminKey |-> TRUE],
      [airtableService |-> TRUE,  rejectedColumn |-> FALSE,
       hackatimeProjectsColumn |-> FALSE, hackatimeAdminKey |-> FALSE],
      [airtableService |-> FALSE, rejectedColumn |-> TRUE,
       hackatimeProjectsColumn |-> TRUE,  hackatimeAdminKey |-> TRUE] }

\* The locally held fields of the two submissions as fetched
\* (createSubmissionFromAirtableRecord): a missing justification is "",
\* and the project keys are "" unless a project keys column is configured.
ReviewSubmissions(config) ==
    [id \in RecordIds |->
        [hoursSpent |-> IF id = "recA" THEN 2 ELSE 0,
         hoursSpentJustification |->
             IF id = "recA" THEN Text(id, "stored", 0) ELSE EmptyText,
         hackatimeProjectKeys |->
             IF config.hackatimeProjectsColumn THEN Text(id, "stored", 1)
             ELSE EmptyText,
         approved |-> FALSE, rejected |-> FALSE]]

\* The assignments that follow the awaited updateSubmission:
\* update sets _hoursSpent, _hoursSpentJustification and _approved from the
\* fields it was given; updateCustomField sets _rejected only for a boolean
\* value of the rejection column and never touches _hackatimeProjectKeys.
AssignLocal(subs, w) ==
    IF w.field \in {"hoursSpent", "hoursSpentJustification", "approved"}
    THEN [subs EXCEPT ![w.sub][w.field] = w.value]
    ELSE IF w.field = "rejected" /\ w.value \in BOOLEAN
         THEN [subs EXCEPT ![w.sub].rejected = w.value]
         ELSE subs

\* The locally held fields once the awaited write settles
updateOutcomeOptimistic(subs, w, ok) == AssignLocal(subs, w)

updateOutcome(subs, w, ok) == IF ok THEN AssignLocal(subs, w) ELSE subs

\* The record as the data service holds it after a write that succeeded
RemoteAfter(remote, w) == [remote EXCEPT ![w.sub][w.field] = w.value]

\* One write: the submission it addresses, the field, the value, and the
\* handler that awaits it
Write(sub, field, value, by) ==
    [sub |-> sub, field |-> field, value |-> value, by |-> by]

WritesBy(by) == {w \in rvInFlight : w.by = by}

\* update / updateCustomField up to the await: without a data service the
\* call throws before anything is sent
InFlightAfterCall(inFlight, config, w) ==
    IF config.airtableService THEN inFlight \cup {w} ELSE inFlight

\* The timer closure of a debounce effect: the submission and the local
\* text of the render that ran the effect
Closure(sub, text) == [sub |-> sub, text |-> text]

\* The load effect of useSubmissionData (deps [selectedSubmission]): its
\* cleanup clears the pending timer, and it arms a 0 ms timer when a
\* submission is selected.
LoadEffect(timer, selected, selected2) ==
    IF selected2 = selected THEN timer
    ELSE IF selected2 = None THEN None
    ELSE Some(selected2[1])

\* A debounce effect of useSubmissionData (deps: the local text and
\* selectedSubmission; the update callbacks are stable): when a dependency
\* changed its cleanup clears the pending timer and it arms a 500 ms timer
\* that closes over the submission and the text of this render.
DebounceEffect(timer, selected, text, selected2, text2, enabled) ==
    IF ~enabled THEN None
    ELSE IF selected2 = selected /\ text2 = text THEN timer
    ELSE IF selected2 = None THEN None
    ELSE Some(Closure(selected2[1], text2))

\* A render of MainLayout with a new selection or new local values, and
\* the effects of useSubmissionData that follow it. load, just and keys are
\* the timers still pending when the render happens.
RvRender(selected2, local2, load, just, keys) ==
    /\ rvSelected' = selected2
    /\ rvLocal' = local2
    /\ rvLoadTimer' = LoadEffect(load, rvSelected, selected2)
    /\ rvJustTimer' = DebounceEffect(just, rvSelected,
                          rvLocal.hoursSpentJustification, selected2,
                          local2.hoursSpentJustification, TRUE)
    /\ rvKeysTimer' = DebounceEffect(keys, rvSelected,
                          rvLocal.hackatimeProjectKeys, selected2,
                          local2.hackatimeProjectKeys,
                          rvConfig.hackatimeProjectsColumn)

RvIdle == UNCHANGED <<clusterVars, groupVars, hbVars, syncVars, playVars, deltaVars>>

\* handleSubmissionSelect, and the auto-selection after a fetch
RvSelect(id) ==
    /\ rvSelected # Some(id)
    /\ rvCount < MaxReviewEvents
    /\ RvRender(Some(id), rvLocal, rvLoadTimer, rvJustTimer, rvKeysTimer)
    /\ rvCount' = rvCount + 1
    /\ rvLast' = "other"
    /\ UNCHANGED <<rvConfig, rvSubs, rvRemote, rvInFlight, approvingSubmission,
                   rejectingSubmission, showRejectionPrompt, rvSyncs>>
    /\ RvIdle

\* The 0 ms timer of the load effect: the local values are set from the
\* selected submission
RvLoadTimerFires ==
    /\ rvLoadTimer # None
    /\ LET sub == rvSubs[rvLoadTimer[1]]
           local2 == [hoursSpent |-> sub.hoursSpent,
                      hoursSpentJustification |-> OrEmpty(sub.hoursSpentJustification),
                      hackatimeProjectKeys |-> OrEmpty(sub.hackatimeProjectKeys)]
       IN  RvRender(rvSelected, local2, None, rvJustTimer, rvKeysTimer)
    /\ rvLast' = "other"
    /\ UNCHANGED <<rvConfig, rvSubs, rvRemote, rvInFlight, approvingSubmission,
                   rejectingSubmission, showRejectionPrompt, rvSyncs, rvCount>>
    /\ RvIdle

\* onHoursSpentJustificationChange = setLocalHoursSpentJustification
RvTypeJustification ==
    /\ rvSelected # None
    /\ rvCount < MaxReviewEvents
    /\ LET text == TypedText(rvSelected[1], rvLocal.hoursSpentJustification)
       IN  RvRender(rvSelected, [rvLocal EXCEPT !.hoursSpentJustification = text],
                    rvLoadTimer, rvJustTimer, rvKeysTimer)
    /\ rvCount' = rvCount + 1
    /\ rvLast' = "other"
    /\ UNCHANGED <<rvConfig, rvSubs, rvRemote, rvInFlight, approvingSubmission,
                   rejectingSubmission, showRejectionPrompt, rvSyncs>>
    /\ RvIdle

\* onHackatimeProjectKeysChange = setLocalHackatimeProjectKeys
RvTypeKeys ==
    /\ rvSelected # None
    /\ rvCount < MaxReviewEvents
    /\ LET text == TypedText(rvSelected[1], rvLocal.hackatimeProjectKeys)
       IN  RvRender(rvSelected, [rvLocal EXCEPT !.hackatimeProjectKeys = text],
                    rvLoadTimer, rvJustTimer, rvKeysTimer)
    /\ rvCount' = rvCount + 1
    /\ rvLast' = "other"
    /\ UNCHANGED <<rvConfig, rvSubs, rvRemote, rvInFlight, approvingSubmission,
                   rejectingSubmission, showRejectionPrompt, rvSyncs>>
    /\ RvIdle

\* onHoursSpentChange: setLocalHoursSpent and updateHoursSpent at once
RvTypeHours(value) ==
    /\ rvSelected # None
    /\ rvCount < MaxReviewEvents
    /\ LET w == Write(rvSelected[1], "hoursSpent", value, "hours")
       IN  /\ rvInFlight' = InFlightAfterCall(rvInFlight, rvConfig, w)
           /\ rvLast' = IF rvConfig.airtableService
                        THEN "sent"
                        ELSE "noService"
    /\ RvRender(rvSelected, [rvLocal EXCEPT !.hoursSpent = value],
                rvLoadTimer, rvJustTimer, rvKeysTimer)
    /\ rvCount' = rvCount + 1
    /\ UNCHANGED <<rvConfig, rvSubs, rvRemote, approvingSubmission,
                   rejectingSubmission, showRejectionPrompt, rvSyncs>>
    /\ RvIdle

\* The 500 ms timer of the justification effect. It was armed together
\* with or after the 0 ms load timer, so it fires after it.
RvJustTimerFires ==
    /\ rvJustTimer # None
    /\ rvLoadTimer = None
    /\ LET c == rvJustTimer[1]
           w == Write(c.sub, "hoursSpentJustification", c.text, "debounce")
       IN  IF c.text # rvSubs[c.sub].hoursSpentJustification
           THEN /\ rvInFlight' = InFlightAfterCall(rvInFlight, rvConfig, w)
                /\ UNCHANGED rvCount
                /\ rvLast' = IF rvConfig.airtableService
                             THEN "sent"
                             ELSE "noService"
           ELSE /\ rvLast' = "other"
                /\ UNCHANGED <<rvInFlight, rvCount>>
    /\ rvJustTimer' = None
    /\ UNCHANGED <<rvConfig, rvSubs, rvRemote, rvSelected, rvLocal, rvLoadTimer,
                   rvKeysTimer, approvingSubmission, rejectingSubmission,
                   showRejectionPrompt, rvSyncs>>
    /\ RvIdle

\* The 500 ms timer of the project keys effect
RvKeysTimerFires ==
    /\ rvKeysTimer # None
    /\ rvLoadTimer = None
    /\ LET c == rvKeysTimer[1]
           w == Write(c.sub, "hackatimeProjectKeys", c.text, "debounce")
       IN  IF c.text # rvSubs[c.sub].hackatimeProjectKeys
           THEN /\ rvInFlight' = InFlightAfterCall(rvInFlight, rvConfig, w)
                /\ UNCHANGED rvCount
                /\ rvLast' = IF rvConfig.airtableService
                             THEN "sent"
                             ELSE "noService"
           ELSE /\ rvLast' = "other"
                /\ UNCHANGED <<rvInFlight, rvCount>>
    /\ rvKeysTimer' = None
    /\ UNCHANGED <<rvConfig, rvSubs, rvRemote, rvSelected, rvLocal, rvLoadTimer,
                   rvJustTimer, approvingSubmission, rejectingSubmission,
                   showRejectionPrompt, rvSyncs>>
    /\ RvIdle

\* The awaited updateSubmission settles: on success update / updateCustomField
\* assign the local fields and the awaiting handler runs on
\* (onSubmissionUpdate, then the reset of its marker); on rejection the
\* promise chain ends there.
RvWriteSettles(w, ok) ==
    /\ w \in rvInFlight
    /\ rvInFlight' = rvInFlight \ {w}
    /\ rvSubs' = updateOutcome(rvSubs, w, ok)
    /\ rvRemote' = IF ok THEN RemoteAfter(rvRemote, w) ELSE rvRemote
    /\ approvingSubmission' =
           IF ok /\ w.by = "approve" THEN None ELSE approvingSubmission
    /\ rejectingSubmission' =
           IF ok /\ w.by \in {"reject", "undoRejection"} THEN None
           ELSE rejectingSubmission
    /\ rvLast' = IF ok THEN "writeOk" ELSE "writeRejected"
    /\ UNCHANGED <<rvConfig, rvSelected, rvLocal, rvLoadTimer, rvJustTimer,
                   rvKeysTimer, showRejectionPrompt, rvSyncs, rvCount>>
    /\ RvIdle

\* handleApprove(selectedSubmission)
RvApprove ==
    /\ rvSelected # None
    /\ rvCount < MaxReviewEvents
    /\ IF approvingSubmission # None
       THEN /\ rvLast' = "other"
            /\ rvCount' = rvCount + 1
            /\ UNCHANGED <<approvingSubmission, rvInFlight>>
       ELSE LET w == Write(rvSelected[1], "approved", TRUE, "approve")
            IN  /\ approvingSubmission' = Some(rvSelected[1])
                /\ rvInFlight' = InFlightAfterCall(rvInFlight, rvConfig, w)
                /\ rvCount' = rvCount + 1
                /\ rvLast' = IF rvConfig.airtableService
                             THEN "sent"
                             ELSE "noService"
    /\ UNCHANGED <<rvConfig, rvSubs, rvRemote, rvSelected, rvLocal, rvLoadTimer,
                   rvJustTimer, rvKeysTimer, rejectingSubmission,
                   showRejectionPrompt, rvSyncs>>
    /\ RvIdle

\* handleReject(selectedSubmission) and handleUndoRejection(selectedSubmission):
\* value is true for reject, false for undo
RvRejection(value) ==
    /\ rvSelected # None
    /\ rvCount < MaxReviewEvents
    /\ IF rejectingSubmission # None
       THEN /\ rvLast' = "other"
            /\ rvCount' = rvCount + 1
            /\ UNCHANGED <<rejectingSubmission, rvInFlight, showRejectionPrompt>>
       ELSE IF ~rvConfig.rejectedColumn
       THEN /\ showRejectionPrompt' = (value \/ showRejectionPrompt)
            /\ rvLast' = "other"
            /\ rvCount' = rvCount + 1
            /\ UNCHANGED <<rejectingSubmission, rvInFlight>>
       ELSE LET w == Write(rvSelected[1], "rejected", value,
                           IF value THEN "reject" ELSE "undoRejection")
            IN  /\ rejectingSubmission' = Some(rvSelected[1])
                /\ rvInFlight' = InFlightAfterCall(rvInFlight, rvConfig, w)
                /\ rvCount' = rvCount + 1
                /\ rvLast' = IF rvConfig.airtableService
                             THEN "sent"
                             ELSE "noService"
                /\ UNCHANGED showRejectionPrompt
    /\ UNCHANGED <<rvConfig, rvSubs, rvRemote, rvSelected, rvLocal, rvLoadTimer,
                   rvJustTimer, rvKeysTimer, approvingSubmission, rvSyncs>>
    /\ RvIdle

RvReject == RvRejection(TRUE)

RvUndoRejection == RvRejection(FALSE)

\* onSyncFromHackatime: handleSyncFromHackatime(selectedSubmission, onUpdate)
\* up to its first await
RvSync ==
    /\ rvSelected # None
    /\ rvCount < MaxReviewEvents
    /\ rvCount' = rvCount + 1
    /\ IF ~rvConfig.hackatimeAdminKey
          \/ ~IsTruthyText(rvSubs[rvSelected[1]].hackatimeProjectKeys)
       THEN /\ rvLast' = "other"
            /\ UNCHANGED rvSyncs
       ELSE /\ rvSyncs' = rvSyncs \cup {[sub |-> rvSelected[1]]}
            /\ rvLast' = "other"
    /\ UNCHANGED <<rvConfig, rvSubs, rvRemote, rvSelected, rvLocal, rvLoadTimer,
                   rvJustTimer, rvKeysTimer, rvInFlight, approvingSubmission,
                   rejectingSubmission, showRejectionPrompt>>
    /\ RvIdle

\* What the hour-sync hands to onUpdate for a submission with matched hours
SyncResult(sub) == [hours |-> 5, justification |-> Text(sub, "sync", 0)]

\* The lookups of handleSyncFromHackatime return. With matched hours the
\* onUpdate callback of MainLayout runs: it sets the local hours and the
\* local justification and calls updateHoursSpent on the submission that was
\* selected when the button was pressed.
RvSyncResolves(s, matched) ==
    /\ s \in rvSyncs
    /\ rvSyncs' = rvSyncs \ {s}
    /\ IF matched
       THEN LET r == SyncResult(s.sub)
                w == Write(s.sub, "hoursSpent", r.hours, "sync")
            IN  /\ RvRender(rvSelected,
                            [rvLocal EXCEPT !.hoursSpent = r.hours,
                                            !.hoursSpentJustification = r.justification],
                            rvLoadTimer, rvJustTimer, rvKeysTimer)
                /\ rvInFlight' = InFlightAfterCall(rvInFlight, rvConfig, w)
                /\ UNCHANGED rvCount
                /\ rvLast' = IF rvConfig.airtableService THEN "sent" ELSE "noService"
       ELSE /\ rvLast' = "other"
            /\ UNCHANGED <<rvSelected, rvLocal, rvLoadTimer, rvJustTimer,
                           rvKeysTimer, rvInFlight, rvCount>>
    /\ UNCHANGED <<rvConfig, rvSubs, rvRemote, approvingSubmission,
                   rejectingSubmission, showRejectionPrompt>>
    /\ RvIdle

\* ------------------------------------------------------------------------
\* Specifications
\* ------------------------------------------------------------------------

\* A list of heartbeats reaches TimeSection; the other subsystems are idle.
InitCluster ==
    /\ cHeartbeats \in ClusterInputs
    /\ cClusters = <<>>
    /\ cReclustered = <<>>
    /\ cPc = "input"
    /\ gHeartbeats = <<>>
    /\ gEntities = <<>>
    /\ gRootParts = <<>>
    /\ gGroups = <<>>
    /\ gPc = "input"
    /\ hackatimeService = FALSE
    /\ allSubmissions = None
    /\ selectedSubmission = [authorEmail |-> EmailA, hackatimeProjectKeys |-> KeysFoo,
                             approved |-> FALSE]
    /\ hbPc = "mount"
    /\ hbHeartbeats = <<>>
    /\ hbIsLoading = FALSE
    /\ hbError = Null
    /\ hbProgress = None
    /\ hbUserId = None
    /\ hbTrustLevel = Null
    /\ aggregatedProjectSeconds = None
    /\ hbRun = NoRun
    /\ hbStale = <<>>
    /\ hbSelections = 0
    /\ hbDiscarded = 0
    /\ hackatimeAdminKey = "none"
    /\ syncSubmission = [authorEmail |-> EmailA, hackatimeProjectKeys |-> KeysNone,
                         hoursSpent |-> 0,
                         hoursSpentJustification |-> JustificationEmpty]
    /\ subHoursSpent = 0
    /\ subHoursSpentJustification = JustificationEmpty
    /\ localHoursSpent = 0
    /\ localHoursSpentJustification = JustificationEmpty
    /\ syncPc = "idle"
    /\ syncRun = NoSyncRun
    /\ syncUpdateCalls = 0
    /\ pendingWrites = <<>>
    /\ pHeartbeats = <<>>
    /\ fileGroups = <<>>
    /\ selectedFileGroup = None
    /\ currentIndex = 0
    /\ isPlaying = FALSE
    /\ fetchState = NoFetch
    /\ pRequests = <<>>
    /\ cache = EmptyCache
    /\ now = 0
    /\ pDeps = None
    /\ pLast = NoEvent
    /\ pPropChanges = 0
    /\ dHeartbeats = <<>>
    /\ dDeltas = <<>>
    /\ dPc = "input"
    /\ rvConfig = [airtableService |-> TRUE, rejectedColumn |-> TRUE, hackatimeProjectsColumn |-> TRUE]
    /\ rvSubs = <<>>
    /\ rvRemote = <<>>
    /\ rvSelected = <<>>
    /\ rvLocal = <<>>
    /\ rvLoadTimer = <<>>
    /\ rvJustTimer = <<>>
    /\ rvKeysTimer = <<>>
    /\ rvInFlight = {}
    /\ approvingSubmission = <<>>
    /\ rejectingSubmission = <<>>
    /\ showRejectionPrompt = FALSE
    /\ rvSyncs = {}
    /\ rvLast = "other"
    /\ rvCount = 0

\* The heartbeats of a cluster reach CodeView; the other subsystems are idle.
InitGroup ==
    /\ cHeartbeats = <<>>
    /\ cClusters = <<>>
    /\ cReclustered = <<>>
    /\ cPc = "input"
    /\ gHeartbeats \in GroupInputs
    /\ gEntities = <<>>
    /\ gRootParts = <<>>
    /\ gGroups = <<>>
    /\ gPc = "input"
    /\ hackatimeService = FALSE
    /\ allSubmissions = None
    /\ selectedSubmission = [authorEmail |-> EmailA, hackatimeProjectKeys |-> KeysFoo,
                             approved |-> FALSE]
    /\ hbPc = "mount"
    /\ hbHeartbeats = <<>>
    /\ hbIsLoading = FALSE
    /\ hbError = Null
    /\ hbProgress = None
    /\ hbUserId = None
    /\ hbTrustLevel = Null
    /\ aggregatedProjectSeconds = None
    /\ hbRun = NoRun
    /\ hbStale = <<>>
    /\ hbSelections = 0
    /\ hbDiscarded = 0
    /\ hackatimeAdminKey = "none"
    /\ syncSubmission = [authorEmail |-> EmailA, hackatimeProjectKeys |-> KeysNone,
                         hoursSpent |-> 0,
                         hoursSpentJustification |-> JustificationEmpty]
    /\ subHoursSpent = 0
    /\ subHoursSpentJustification = JustificationEmpty
    /\ localHoursSpent = 0
    /\ localHoursSpentJustification = JustificationEmpty
    /\ syncPc = "idle"
    /\ syncRun = NoSyncRun
    /\ syncUpdateCalls = 0
    /\ pendingWrites = <<>>
    /\ pHeartbeats = <<>>
    /\ fileGroups = <<>>
    /\ selectedFileGroup = None
    /\ currentIndex = 0
    /\ isPlaying = FALSE
    /\ fetchState = NoFetch
    /\ pRequests = <<>>
    /\ cache = EmptyCache
    /\ now = 0
    /\ pDeps = None
    /\ pLast = NoEvent
    /\ pPropChanges = 0
    /\ dHeartbeats = <<>>
    /\ dDeltas = <<>>
    /\ dPc = "input"
    /\ rvConfig = [airtableService |-> TRUE, rejectedColumn |-> TRUE, hackatimeProjectsColumn |-> TRUE]
    /\ rvSubs = <<>>
    /\ rvRemote = <<>>
    /\ rvSelected = <<>>
    /\ rvLocal = <<>>
    /\ rvLoadTimer = <<>>
    /\ rvJustTimer = <<>>
    /\ rvKeysTimer = <<>>
    /\ rvInFlight = {}
    /\ approvingSubmission = <<>>
    /\ rejectingSubmission = <<>>
    /\ showRejectionPrompt = FALSE
    /\ rvSyncs = {}
    /\ rvLast = "other"
    /\ rvCount = 0

\* useHeartbeatData mounts with a viewed submission; the other subsystems are idle.
InitHeartbeats ==
    /\ cHeartbeats = <<>>
    /\ cClusters = <<>>
    /\ cReclustered = <<>>
    /\ cPc = "input"
    /\ gHeartbeats = <<>>
    /\ gEntities = <<>>
    /\ gRootParts = <<>>
    /\ gGroups = <<>>
    /\ gPc = "input"
    /\ hackatimeService \in BOOLEAN
    /\ \/ /\ selectedSubmission \in Submissions
          /\ allSubmissions = None
       \/ \E list \in SeqsUpTo(Submissions, MaxSubmissions) \ {<<>>} :
            /\ allSubmissions = Some(list)
            /\ selectedSubmission \in {list[i] : i \in 1..Len(list)}
    /\ hbPc = "mount"
    /\ hbHeartbeats = <<>>
    /\ hbIsLoading = FALSE
    /\ hbError = Null
    /\ hbProgress = None
    /\ hbUserId = None
    /\ hbTrustLevel = Null
    /\ aggregatedProjectSeconds = None
    /\ hbRun = NoRun
    /\ hbStale = <<>>
    /\ hbSelections = 0
    /\ hbDiscarded = 0
    /\ hackatimeAdminKey = "none"
    /\ syncSubmission = [authorEmail |-> EmailA, hackatimeProjectKeys |-> KeysNone,
                         hoursSpent |-> 0,
                         hoursSpentJustification |-> JustificationEmpty]
    /\ subHoursSpent = 0
    /\ subHoursSpentJustification = JustificationEmpty
    /\ localHoursSpent = 0
    /\ localHoursSpentJustification = JustificationEmpty
    /\ syncPc = "idle"
    /\ syncRun = NoSyncRun
    /\ syncUpdateCalls = 0
    /\ pendingWrites = <<>>
    /\ pHeartbeats = <<>>
    /\ fileGroups = <<>>
    /\ selectedFileGroup = None
    /\ currentIndex = 0
    /\ isPlaying = FALSE
    /\ fetchState = NoFetch
    /\ pRequests = <<>>
    /\ cache = EmptyCache
    /\ now = 0
    /\ pDeps = None
    /\ pLast = NoEvent
    /\ pPropChanges = 0
    /\ dHeartbeats = <<>>
    /\ dDeltas = <<>>
    /\ dPc = "input"
    /\ rvConfig = [airtableService |-> TRUE, rejectedColumn |-> TRUE, hackatimeProjectsColumn |-> TRUE]
    /\ rvSubs = <<>>
    /\ rvRemote = <<>>
    /\ rvSelected = <<>>
    /\ rvLocal = <<>>
    /\ rvLoadTimer = <<>>
    /\ rvJustTimer = <<>>
    /\ rvKeysTimer = <<>>
    /\ rvInFlight = {}
    /\ approvingSubmission = <<>>
    /\ rejectingSubmission = <<>>
    /\ showRejectionPrompt = FALSE
    /\ rvSyncs = {}
    /\ rvLast = "other"
    /\ rvCount = 0

\* useHeartbeatData mounts in MainLayout, which lets the reviewer change the
\* viewed submission; the other subsystems are idle.
InitIngest ==
    /\ cHeartbeats = <<>>
    /\ cClusters = <<>>
    /\ cReclustered = <<>>
    /\ cPc = "input"
    /\ gHeartbeats = <<>>
    /\ gEntities = <<>>
    /\ gRootParts = <<>>
    /\ gGroups = <<>>
    /\ gPc = "input"
    /\ hackatimeService = TRUE
    /\ allSubmissions = Some(IngestSubmissions)
    /\ selectedSubmission \in {IngestSubmissions[i] : i \in 1..Len(IngestSubmissions)}
    /\ hbPc = "mount"
    /\ hbHeartbeats = <<>>
    /\ hbIsLoading = FALSE
    /\ hbError = Null
    /\ hbProgress = None
    /\ hbUserId = None
    /\ hbTrustLevel = Null
    /\ aggregatedProjectSeconds = None
    /\ hbRun = NoRun
    /\ hbStale = <<>>
    /\ hbSelections = 0
    /\ hbDiscarded = 0
    /\ hackatimeAdminKey = "none"
    /\ syncSubmission = [authorEmail |-> EmailA, hackatimeProjectKeys |-> KeysNone,
                         hoursSpent |-> 0,
                         hoursSpentJustification |-> JustificationEmpty]
    /\ subHoursSpent = 0
    /\ subHoursSpentJustification = JustificationEmpty
    /\ localHoursSpent = 0
    /\ localHoursSpentJustification = JustificationEmpty
    /\ syncPc = "idle"
    /\ syncRun = NoSyncRun
    /\ syncUpdateCalls = 0
    /\ pendingWrites = <<>>
    /\ pHeartbeats = <<>>
    /\ fileGroups = <<>>
    /\ selectedFileGroup = None
    /\ currentIndex = 0
    /\ isPlaying = FALSE
    /\ fetchState = NoFetch
    /\ pRequests = <<>>
    /\ cache = EmptyCache
    /\ now = 0
    /\ pDeps = None
    /\ pLast = NoEvent
    /\ pPropChanges = 0
    /\ dHeartbeats = <<>>
    /\ dDeltas = <<>>
    /\ dPc = "input"
    /\ rvConfig = [airtableService |-> TRUE, rejectedColumn |-> TRUE, hackatimeProjectsColumn |-> TRUE]
    /\ rvSubs = <<>>
    /\ rvRemote = <<>>
    /\ rvSelected = <<>>
    /\ rvLocal = <<>>
    /\ rvLoadTimer = <<>>
    /\ rvJustTimer = <<>>
    /\ rvKeysTimer = <<>>
    /\ rvInFlight = {}
    /\ approvingSubmission = <<>>
    /\ rejectingSubmission = <<>>
    /\ showRejectionPrompt = FALSE
    /\ rvSyncs = {}
    /\ rvLast = "other"
    /\ rvCount = 0

\* A submission is shown with its local fields loaded; the other subsystems are idle.
InitSync ==
    /\ cHeartbeats = <<>>
    /\ cClusters = <<>>
    /\ cReclustered = <<>>
    /\ cPc = "input"
    /\ gHeartbeats = <<>>
    /\ gEntities = <<>>
    /\ gRootParts = <<>>
    /\ gGroups = <<>>
    /\ gPc = "input"
    /\ hackatimeService = FALSE
    /\ allSubmissions = None
    /\ selectedSubmission = [authorEmail |-> EmailA, hackatimeProjectKeys |-> KeysFoo,
                             approved |-> FALSE]
    /\ hbPc = "mount"
    /\ hbHeartbeats = <<>>
    /\ hbIsLoading = FALSE
    /\ hbError = Null
    /\ hbProgress = None
    /\ hbUserId = None
    /\ hbTrustLevel = Null
    /\ aggregatedProjectSeconds = None
    /\ hbRun = NoRun
    /\ hbStale = <<>>
    /\ hbSelections = 0
    /\ hbDiscarded = 0
    /\ hackatimeAdminKey \in {"none", "invalid", "valid"}
    /\ syncSubmission \in SyncSubmissions
    /\ subHoursSpent = syncSubmission.hoursSpent
    /\ subHoursSpentJustification = syncSubmission.hoursSpentJustification
    /\ localHoursSpent = syncSubmission.hoursSpent
    /\ localHoursSpentJustification = syncSubmission.hoursSpentJustification
    /\ syncPc = "idle"
    /\ syncRun = NoSyncRun
    /\ syncUpdateCalls = 0
    /\ pendingWrites = <<>>
    /\ pHeartbeats = <<>>
    /\ fileGroups = <<>>
    /\ selectedFileGroup = None
    /\ currentIndex = 0
    /\ isPlaying = FALSE
    /\ fetchState = NoFetch
    /\ pRequests = <<>>
    /\ cache = EmptyCache
    /\ now = 0
    /\ pDeps = None
    /\ pLast = NoEvent
    /\ pPropChanges = 0
    /\ dHeartbeats = <<>>
    /\ dDeltas = <<>>
    /\ dPc = "input"
    /\ rvConfig = [airtableService |-> TRUE, rejectedColumn |-> TRUE, hackatimeProjectsColumn |-> TRUE]
    /\ rvSubs = <<>>
    /\ rvRemote = <<>>
    /\ rvSelected = <<>>
    /\ rvLocal = <<>>
    /\ rvLoadTimer = <<>>
    /\ rvJustTimer = <<>>
    /\ rvKeysTimer = <<>>
    /\ rvInFlight = {}
    /\ approvingSubmission = <<>>
    /\ rejectingSubmission = <<>>
    /\ showRejectionPrompt = FALSE
    /\ rvSyncs = {}
    /\ rvLast = "other"
    /\ rvCount = 0

\* CodeView is constructed with the heartbeats of a cluster, before its
\* first render; the other subsystems are idle.
InitPlayback ==
    /\ cHeartbeats = <<>>
    /\ cClusters = <<>>
    /\ cReclustered = <<>>
    /\ cPc = "input"
    /\ gHeartbeats = <<>>
    /\ gEntities = <<>>
    /\ gRootParts = <<>>
    /\ gGroups = <<>>
    /\ gPc = "input"
    /\ hackatimeService = FALSE
    /\ allSubmissions = None
    /\ selectedSubmission = [authorEmail |-> EmailA, hackatimeProjectKeys |-> KeysFoo,
                             approved |-> FALSE]
    /\ hbPc = "mount"
    /\ hbHeartbeats = <<>>
    /\ hbIsLoading = FALSE
    /\ hbError = Null
    /\ hbProgress = None
    /\ hbUserId = None
    /\ hbTrustLevel = Null
    /\ aggregatedProjectSeconds = None
    /\ hbRun = NoRun
    /\ hbStale = <<>>
    /\ hbSelections = 0
    /\ hbDiscarded = 0
    /\ hackatimeAdminKey = "none"
    /\ syncSubmission = [authorEmail |-> EmailA, hackatimeProjectKeys |-> KeysNone,
                         hoursSpent |-> 0,
                         hoursSpentJustification |-> JustificationEmpty]
    /\ subHoursSpent = 0
    /\ subHoursSpentJustification = JustificationEmpty
    /\ localHoursSpent = 0
    /\ localHoursSpentJustification = JustificationEmpty
    /\ syncPc = "idle"
    /\ syncRun = NoSyncRun
    /\ syncUpdateCalls = 0
    /\ pendingWrites = <<>>
    /\ pHeartbeats \in PlayInputs
    /\ fileGroups = <<>>
    /\ selectedFileGroup = None
    /\ currentIndex = 0
    /\ isPlaying = FALSE
    /\ fetchState = NoFetch
    /\ pRequests = <<>>
    /\ cache = EmptyCache
    /\ now = 0
    /\ pDeps = None
    /\ pLast = NoEvent
    /\ pPropChanges = 0
    /\ dHeartbeats = <<>>
    /\ dDeltas = <<>>
    /\ dPc = "input"
    /\ rvConfig = [airtableService |-> TRUE, rejectedColumn |-> TRUE, hackatimeProjectsColumn |-> TRUE]
    /\ rvSubs = <<>>
    /\ rvRemote = <<>>
    /\ rvSelected = <<>>
    /\ rvLocal = <<>>
    /\ rvLoadTimer = <<>>
    /\ rvJustTimer = <<>>
    /\ rvKeysTimer = <<>>
    /\ rvInFlight = {}
    /\ approvingSubmission = <<>>
    /\ rejectingSubmission = <<>>
    /\ showRejectionPrompt = FALSE
    /\ rvSyncs = {}
    /\ rvLast = "other"
    /\ rvCount = 0

ClusterNext == ClusterHeartbeats \/ Recluster

SpecCluster == InitCluster /\ [][ClusterNext]_vars

GroupNext == GroupHeartbeatsByFile

SpecGroup == InitGroup /\ [][GroupNext]_vars

HbNext ==
    \/ HbEffect
    \/ HbFindIdResp
    \/ HbUserInfoResp
    \/ HbTrustLogsResp
    \/ HbProjectsResp
    \/ HbDayResp
    \/ HbRequestFails

SpecHeartbeats == InitHeartbeats /\ [][HbNext]_vars

IngestNext ==
    \/ HbEffect
    \/ HbFindIdResp
    \/ HbUserInfoResp
    \/ HbTrustLogsResp
    \/ HbProjectsResp
    \/ HbDayResp
    \/ HbRequestFails
    \/ HbSelectSubmission
    \/ HbStaleSettles

SpecIngest == InitIngest /\ [][IngestNext]_vars

SyncNext ==
    \/ SyncFromHackatime
    \/ SyncFindIdResp
    \/ SyncProjectsResp
    \/ SyncRequestFails
    \/ JustificationDebounce
    \/ SubmissionUpdateResp

SpecSync == InitSync /\ [][SyncNext]_vars

PlaybackNext ==
    \/ PvMount
    \/ PvHeartbeatsChange
    \/ PvSelectGroup
    \/ PvPrevious
    \/ PvNext
    \/ PvSlider
    \/ PvTogglePlayback
    \/ PvTick
    \/ PvFetchSettles

SpecPlayback == InitPlayback /\ [][PlaybackNext]_vars

FetchNext ==
    \/ PvMount
    \/ PvSelectGroup
    \/ PvFetchSettles
    \/ PvTimePasses

SpecFetch == InitPlayback /\ [][FetchNext]_vars

\* A list of heartbeats reaches DeltaPlotView; the other subsystems are idle.
InitDeltas ==
    /\ cHeartbeats = <<>>
    /\ cClusters = <<>>
    /\ cReclustered = <<>>
    /\ cPc = "input"
    /\ gHeartbeats = <<>>
    /\ gEntities = <<>>
    /\ gRootParts = <<>>
    /\ gGroups = <<>>
    /\ gPc = "input"
    /\ hackatimeService = FALSE
    /\ allSubmissions = None
    /\ selectedSubmission = [authorEmail |-> EmailA, hackatimeProjectKeys |-> KeysFoo,
                             approved |-> FALSE]
    /\ hbPc = "mount"
    /\ hbHeartbeats = <<>>
    /\ hbIsLoading = FALSE
    /\ hbError = Null
    /\ hbProgress = None
    /\ hbUserId = None
    /\ hbTrustLevel = Null
    /\ aggregatedProjectSeconds = None
    /\ hbRun = NoRun
    /\ hbStale = <<>>
    /\ hbSelections = 0
    /\ hbDiscarded = 0
    /\ hackatimeAdminKey = "none"
    /\ syncSubmission = [authorEmail |-> EmailA, hackatimeProjectKeys |-> KeysNone,
                         hoursSpent |-> 0,
                         hoursSpentJustification |-> JustificationEmpty]
    /\ subHoursSpent = 0
    /\ subHoursSpentJustification = JustificationEmpty
    /\ localHoursSpent = 0
    /\ localHoursSpentJustification = JustificationEmpty
    /\ syncPc = "idle"
    /\ syncRun = NoSyncRun
    /\ syncUpdateCalls = 0
    /\ pendingWrites = <<>>
    /\ pHeartbeats = <<>>
    /\ fileGroups = <<>>
    /\ selectedFileGroup = None
    /\ currentIndex = 0
    /\ isPlaying = FALSE
    /\ fetchState = NoFetch
    /\ pRequests = <<>>
    /\ cache = EmptyCache
    /\ now = 0
    /\ pDeps = None
    /\ pLast = NoEvent
    /\ pPropChanges = 0
    /\ dHeartbeats \in SeqsUpTo(DeltaHeartbeats, MaxDeltaHeartbeats)
    /\ dDeltas = <<>>
    /\ dPc = "input"
    /\ rvConfig = [airtableService |-> TRUE, rejectedColumn |-> TRUE, hackatimeProjectsColumn |-> TRUE]
    /\ rvSubs = <<>>
    /\ rvRemote = <<>>
    /\ rvSelected = <<>>
    /\ rvLocal = <<>>
    /\ rvLoadTimer = <<>>
    /\ rvJustTimer = <<>>
    /\ rvKeysTimer = <<>>
    /\ rvInFlight = {}
    /\ approvingSubmission = <<>>
    /\ rejectingSubmission = <<>>
    /\ showRejectionPrompt = FALSE
    /\ rvSyncs = {}
    /\ rvLast = "other"
    /\ rvCount = 0

DeltasNext ==
    \/ ComputeDeltas

SpecDeltas == InitDeltas /\ [][DeltasNext]_vars

\* A reviewer works through two fetched submissions; the other subsystems are idle.
InitReview ==
    /\ cHeartbeats = <<>>
    /\ cClusters = <<>>
    /\ cReclustered = <<>>
    /\ cPc = "input"
    /\ gHeartbeats = <<>>
    /\ gEntities = <<>>
    /\ gRootParts = <<>>
    /\ gGroups = <<>>
    /\ gPc = "input"
    /\ hackatimeService = FALSE
    /\ allSubmissions = None
    /\ selectedSubmission = [authorEmail |-> EmailA, hackatimeProjectKeys |-> KeysFoo,
                             approved |-> FALSE]
    /\ hbPc = "mount"
    /\ hbHeartbeats = <<>>
    /\ hbIsLoading = FALSE
    /\ hbError = Null
    /\ hbProgress = None
    /\ hbUserId = None
    /\ hbTrustLevel = Null
    /\ aggregatedProjectSeconds = None
    /\ hbRun = NoRun
    /\ hbStale = <<>>
    /\ hbSelections = 0
    /\ hbDiscarded = 0
    /\ hackatimeAdminKey = "none"
    /\ syncSubmission = [authorEmail |-> EmailA, hackatimeProjectKeys |-> KeysNone,
                         hoursSpent |-> 0,
                         hoursSpentJustification |-> JustificationEmpty]
    /\ subHoursSpent = 0
    /\ subHoursSpentJustification = JustificationEmpty
    /\ localHoursSpent = 0
    /\ localHoursSpentJustification = JustificationEmpty
    /\ syncPc = "idle"
    /\ syncRun = NoSyncRun
    /\ syncUpdateCalls = 0
    /\ pendingWrites = <<>>
    /\ pHeartbeats = <<>>
    /\ fileGroups = <<>>
    /\ selectedFileGroup = None
    /\ currentIndex = 0
    /\ isPlaying = FALSE
    /\ fetchState = NoFetch
    /\ pRequests = <<>>
    /\ cache = EmptyCache
    /\ now = 0
    /\ pDeps = None
    /\ pLast = NoEvent
    /\ pPropChanges = 0
    /\ dHeartbeats = <<>>
    /\ dDeltas = <<>>
    /\ dPc = "input"
    /\ rvConfig \in ReviewConfigs
    /\ rvSubs = ReviewSubmissions(rvConfig)
    /\ rvRemote = ReviewSubmissions(rvConfig)
    /\ rvSelected = <<>>
    /\ rvLocal = [hoursSpent |-> 0, hoursSpentJustification |-> EmptyText, hackatimeProjectKeys |-> EmptyText]
    /\ rvLoadTimer = <<>>
    /\ rvJustTimer = <<>>
    /\ rvKeysTimer = <<>>
    /\ rvInFlight = {}
    /\ approvingSubmission = <<>>
    /\ rejectingSubmission = <<>>
    /\ showRejectionPrompt = FALSE
    /\ rvSyncs = {}
    /\ rvLast = "other"
    /\ rvCount = 0

ReviewNext ==
    \/ \E id \in RecordIds : RvSelect(id)
    \/ RvLoadTimerFires
    \/ RvTypeJustification
    \/ RvTypeKeys
    \/ \E value \in {1} : RvTypeHours(value)
    \/ RvJustTimerFires
    \/ RvKeysTimerFires
    \/ \E w \in rvInFlight, ok \in BOOLEAN : RvWriteSettles(w, ok)
    \/ RvApprove
    \/ RvReject
    \/ RvUndoRejection
    \/ RvSync
    \/ \E s \in rvSyncs, matched \in BOOLEAN : RvSyncResolves(s, matched)

SpecReview == InitReview /\ [][ReviewNext]_vars

Init == InitCluster
Next == ClusterNext
Spec == SpecCluster

\* ------------------------------------------------------------------------
\* Properties of clustering (SpecCluster)
\* ------------------------------------------------------------------------

\* The number of (cluster, position) places of the output that hold heartbeat hb
PlacesOf(clusters, hb) ==
    Cardinality({<<k, j>> \in (1..Len(clusters)) \X (1..MaxHeartbeats + 1) :
                    /\ j <= Len(clusters[k].heartbeats)
                    /\ clusters[k].heartbeats[j] = hb})

\* C1: for every non-empty input, the clusters' heartbeats taken together are
\* exactly the input heartbeats, each in exactly one cluster (none lost, none
\* duplicated), and the clusters are in ascending order of startTime.
C1_Partition ==
    (cPc # "input" /\ Len(cHeartbeats) > 0) =>
        /\ Len(Flatten(cClusters)) = Len(cHeartbeats)
        /\ \A i \in 1..Len(cHeartbeats) : PlacesOf(cClusters, cHeartbeats[i]) = 1
        /\ \A k \in 1..Len(cClusters) :
              /\ Len(cClusters[k].heartbeats) > 0
              /\ cClusters[k].startTime = cClusters[k].heartbeats[1].time
        /\ \A k \in 1..(Len(cClusters) - 1) :
              cClusters[k].startTime < cClusters[k + 1].startTime

\* An unsorted input of three heartbeats was split into several clusters.
C1_Witness ==
    /\ cPc = "clustered"
    /\ Len(cHeartbeats) = 3
    /\ Len(cClusters) >= 2
    /\ \E i \in 1..2 : cHeartbeats[i].time > cHeartbeats[i + 1].time

\* C2: adjacent heartbeats inside one cluster are at most 900000 ms apart, the
\* last heartbeat of a cluster and the first of the next are more than
\* 900000 ms apart; 0s, 100s, 200s form one cluster, 0s and 1000s two clusters
\* of size 1.
C2_GapInvariant ==
    (cPc # "input") =>
        /\ \A k \in 1..Len(cClusters) :
              \A j \in 1..(Len(cClusters[k].heartbeats) - 1) :
                 cClusters[k].heartbeats[j + 1].time
                    - cClusters[k].heartbeats[j].time <= 900000
        /\ \A k \in 1..(Len(cClusters) - 1) :
              cClusters[k + 1].heartbeats[1].time
                 - cClusters[k].heartbeats[Len(cClusters[k].heartbeats)].time > 900000
        /\ ([i \in 1..Len(cHeartbeats) |-> cHeartbeats[i].time] = <<0, 100000, 200000>>
              => /\ Len(cClusters) = 1
                 /\ Len(cClusters[1].heartbeats) = 3)
        /\ ([i \in 1..Len(cHeartbeats) |-> cHeartbeats[i].time] = <<0, 1000000>>
              => /\ Len(cClusters) = 2
                 /\ Len(cClusters[1].heartbeats) = 1
                 /\ Len(cClusters[2].heartbeats) = 1)

\* A gap of exactly 900000 ms stayed inside a cluster and a gap of 900001 ms
\* separated two clusters.
C2_Witness ==
    /\ cPc = "clustered"
    /\ \E k \in 1..Len(cClusters) :
          \E j \in 1..(Len(cClusters[k].heartbeats) - 1) :
             cClusters[k].heartbeats[j + 1].time
                - cClusters[k].heartbeats[j].time = 900000
    /\ \E k \in 1..(Len(cClusters) - 1) :
          cClusters[k + 1].heartbeats[1].time
             - cClusters[k].heartbeats[Len(cClusters[k].heartbeats)].time = 900001

\* C3: clustering the flattened, re-sorted heartbeats of the output again
\* yields the same number of clusters with the same members in each.
C3_Idempotent ==
    (cPc = "reclustered") =>
        /\ Len(cReclustered) = Len(cClusters)
        /\ \A k \in 1..Len(cClusters) :
              cReclustered[k].heartbeats = cClusters[k].heartbeats
        /\ Len(Flatten(cReclustered)) = Len(cHeartbeats)

\* The output of an unsorted input, with several clusters one of which has
\* several members, was clustered again.
C3_Witness ==
    /\ cPc = "reclustered"
    /\ Len(cClusters) >= 2
    /\ \E k \in 1..Len(cClusters) : Len(cClusters[k].heartbeats) >= 2
    /\ \E i \in 1..(Len(cHeartbeats) - 1) : cHeartbeats[i].time > cHeartbeats[i + 1].time

\* ------------------------------------------------------------------------
\* Properties of project-root inference and relative paths (SpecGroup)
\* ------------------------------------------------------------------------

\* dir is a directory prefix of parts: a proper, non-empty leading run
IsDirPrefix(dir, parts) ==
    /\ Len(dir) >= 1
    /\ Len(dir) <= Len(parts) - 1
    /\ SubSeq(parts, 1, Len(dir)) = dir

\* The directory prefixes of the entity list
DirPrefixes(entities) ==
    UNION {{SubSeq(normalizePath(entities[k]), 1, i) :
                i \in 1..(Len(normalizePath(entities[k])) - 1)} :
           k \in 1..Len(entities)}

\* Occurrences as the scan counts them: one per entry of the entity list
OccurrenceCount(dir, entities) ==
    Cardinality({k \in 1..Len(entities) : IsDirPrefix(dir, normalizePath(entities[k]))})

\* The distinct entity paths a prefix occurs in
DistinctEntityCount(dir, entities) ==
    Cardinality({entities[k] : k \in {j \in 1..Len(entities) :
                                  IsDirPrefix(dir, normalizePath(entities[j]))}})

EligiblePrefixes(entities) ==
    {dir \in DirPrefixes(entities) : OccurrenceCount(dir, entities) >= 2}

Score(dir, entities) == OccurrenceCount(dir, entities) * Len(dir)

\* The position of a prefix in the scan: first the entity that introduces it,
\* then its depth
VisitRank(dir, entities) ==
    LET first == CHOOSE k \in 1..Len(entities) :
                    /\ IsDirPrefix(dir, normalizePath(entities[k]))
                    /\ \A j \in 1..(k - 1) : ~IsDirPrefix(dir, normalizePath(entities[j]))
    IN  first * 100 + Len(dir)

\* C4: a directory prefix is chosen as the root by the scoring only if it is a
\* prefix of at least 2 distinct entity paths; several heartbeats on the same
\* file do not make that file's private directories eligible.
C4_EligibleNeedsTwoDistinctEntities ==
    (gPc = "grouped" /\ EligiblePrefixes(gEntities) # {}) =>
        DistinctEntityCount(gRootParts, gEntities) >= 2

\* C5: among the eligible prefixes the root is the one with the maximum
\* occurrenceCount x depth, the first visited on equal scores; for src/a/b.ts,
\* src/a/c.ts, src/d.ts it is src/a.
C5_MaxScoreFirstVisited ==
    (gPc = "grouped") =>
        /\ (EligiblePrefixes(gEntities) # {}) =>
              /\ gRootParts \in EligiblePrefixes(gEntities)
              /\ \A dir \in EligiblePrefixes(gEntities) :
                    \/ Score(dir, gEntities) < Score(gRootParts, gEntities)
                    \/ /\ Score(dir, gEntities) = Score(gRootParts, gEntities)
                       /\ VisitRank(gRootParts, gEntities) <= VisitRank(dir, gEntities)
        /\ (gEntities = <<PathSrcAB, PathSrcAC, PathSrcD>>) => gRootParts = <<SegSrc, SegA>>

\* Two eligible prefixes tie on the maximum score.
C5_Witness ==
    /\ gPc = "grouped"
    /\ \E dir \in EligiblePrefixes(gEntities) :
          /\ dir # gRootParts
          /\ Score(dir, gEntities) = Score(gRootParts, gEntities)
          /\ gRootParts \in EligiblePrefixes(gEntities)

\* C6: when no prefix is eligible the root is the first entity's path with its
\* final segment dropped, also for a path that is a filename only.
C6_FallbackDropsFilename ==
    (gPc = "grouped" /\ gEntities # <<>> /\ EligiblePrefixes(gEntities) = {}) =>
        LET first == normalizePath(gEntities[1])
        IN  gRootParts = SubSeq(first, 1, Len(first) - 1)

\* The longest run of leading segments of parts that match root's
\* case-insensitively, position by position
LeadingMatch(parts, root) ==
    CHOOSE n \in 0..Min(Len(parts), Len(root)) :
        /\ \A i \in 1..n : ToLowerCase(parts[i]) = ToLowerCase(root[i])
        /\ \/ n = Min(Len(parts), Len(root))
           \/ ToLowerCase(parts[n + 1]) # ToLowerCase(root[n + 1])

\* C7: a group's relativePath is the entity's segments after its longest
\* leading run that matches the root case-insensitively, joined by "/"; the
\* last segment when nothing remains; root [src, a] and src/a/b.ts give b.ts.
C7_RelativePath ==
    (gPc = "grouped") =>
        \A g \in 1..Len(gGroups) :
            LET parts == normalizePath(gGroups[g].entity)
                n == LeadingMatch(parts, gRootParts)
            IN  /\ gGroups[g].relativePath =
                     IF n < Len(parts) THEN Join(SubSeq(parts, n + 1, Len(parts)), Slash)
                     ELSE parts[Len(parts)]
                /\ (gRootParts = <<SegSrc, SegA>> /\ gGroups[g].entity = PathSrcAB)
                      => gGroups[g].relativePath = FileB

\* A group's entity matches the root only case-insensitively, and another
\* group's entity stops matching at its first segment.
C7_Witness ==
    /\ gPc = "grouped"
    /\ \E g \in 1..Len(gGroups) :
          LET parts == normalizePath(gGroups[g].entity) IN
          /\ LeadingMatch(parts, gRootParts) = 2
          /\ parts[1] # gRootParts[1]
          /\ gGroups[g].relativePath = FileB

\* ------------------------------------------------------------------------
\* Properties of the aggregate hours (SpecHeartbeats)
\* ------------------------------------------------------------------------

\* The keys each key string declares, and the lower-cased names and e-mails
DeclaredKeys ==
    [k \in KeyStrings |->
        {SplitProjectKeys(k)[i] : i \in 1..Len(SplitProjectKeys(k))} \ {<<>>}]
LowerName == [n \in {NameFoo, NameBar, NameBaz} |-> ToLowerCase(n)]
LowerEmail == [e \in Emails |-> ToLowerCase(e)]

\* Submission sub declares project p: p's name, lower-cased, is one of sub's keys
Declares(sub, p) == LowerName[p.name] \in DeclaredKeys[sub.hackatimeProjectKeys]

SameAuthor(sub) == LowerEmail[sub.authorEmail] = LowerEmail[selectedSubmission.authorEmail]

\* The places of the submissions list that hold approved submissions of the
\* viewed submission's author and declare p
ApprovedDeclaring(p) ==
    IF allSubmissions = None THEN {}
    ELSE {i \in 1..Len(allSubmissions[1]) :
            /\ SameAuthor(allSubmissions[1][i])
            /\ allSubmissions[1][i].approved
            /\ Declares(allSubmissions[1][i], p)}

\* p is declared by an approved submission of the author (the viewed one alone
\* when the hook was given no list)
DeclaredByApproved(p) ==
    IF allSubmissions = None
    THEN selectedSubmission.approved /\ Declares(selectedSubmission, p)
    ELSE ApprovedDeclaring(p) # {}

\* The aggregate was computed by the run
AggregateComputed == aggregatedProjectSeconds # None

\* C8: a project declared by two or more approved submissions of the author
\* adds its total_duration once: the aggregate is the sum, over the service's
\* projects, of the duration of every project declared by at least one
\* approved submission of the author.
C8_AggregateCountsProjectOnce ==
    AggregateComputed =>
        aggregatedProjectSeconds[1] =
            SumSeq([i \in 1..Len(hbRun.allProjects) |->
                      IF DeclaredByApproved(hbRun.allProjects[i])
                      THEN hbRun.allProjects[i].total_duration ELSE 0])

\* Two approved submissions of the author declare the same project, which the
\* service reports, and the aggregate was computed.
C8_Witness ==
    /\ AggregateComputed
    /\ \E i \in 1..Len(hbRun.allProjects) :
          /\ Cardinality(ApprovedDeclaring(hbRun.allProjects[i])) >= 2
          /\ hbRun.allProjects[i].total_duration > 0

\* C9 as stated: when the viewed submission is unapproved, its declared keys
\* contribute to the aggregate.
C9_UnapprovedViewedContributes ==
    (AggregateComputed /\ ~selectedSubmission.approved) =>
        \A i \in 1..Len(hbRun.allProjects) :
            Declares(selectedSubmission, hbRun.allProjects[i])
               => Includes(hbRun.aggregateProjects, hbRun.allProjects[i])

\* C9, amended: the projects used for the aggregate are exactly the service's
\* projects declared by an approved submission of the author; a project
\* declared only by unapproved submissions, the viewed one included, is not
\* used.
C9_OnlyApprovedContribute ==
    AggregateComputed =>
        /\ \A i \in 1..Len(hbRun.allProjects) :
              Includes(hbRun.aggregateProjects, hbRun.allProjects[i])
                 <=> DeclaredByApproved(hbRun.allProjects[i])
        /\ \A j \in 1..Len(hbRun.aggregateProjects) :
              Includes(hbRun.allProjects, hbRun.aggregateProjects[j])

\* The viewed submission is unapproved and declares a reported project that is
\* left out of the aggregate, while an approved submission of the author puts
\* another project in.
C9_Witness ==
    /\ AggregateComputed
    /\ ~selectedSubmission.approved
    /\ hbRun.aggregateProjects # <<>>
    /\ \E i \in 1..Len(hbRun.allProjects) :
          /\ Declares(selectedSubmission, hbRun.allProjects[i])
          /\ ~Includes(hbRun.aggregateProjects, hbRun.allProjects[i])

\* ------------------------------------------------------------------------
\* Properties of hour-sync (SpecSync)
\* ------------------------------------------------------------------------

\* C10: a sync that matched no project never invoked the update callback, and
\* neither the hours nor the justification changed, locally or on the
\* submission.
C10_ZeroMatchesNoUpdate ==
    (syncPc = "done" /\ syncRun.matchedProjects = <<>>) =>
        /\ syncUpdateCalls = 0
        /\ pendingWrites = <<>>
        /\ localHoursSpent = syncSubmission.hoursSpent
        /\ localHoursSpentJustification = syncSubmission.hoursSpentJustification
        /\ subHoursSpent = syncSubmission.hoursSpent
        /\ subHoursSpentJustification = syncSubmission.hoursSpentJustification

\* The service reported projects, none of which matched a declared key.
C10_Witness ==
    /\ syncPc = "done"
    /\ syncRun.received
    /\ syncRun.projects # <<>>
    /\ syncRun.projectKeys # <<>>
    /\ syncRun.matchedProjects = <<>>

\* ------------------------------------------------------------------------
\* Properties of ingestion under a change of the viewed submission (SpecIngest)
\* ------------------------------------------------------------------------

RequestsInFlight == (IF hbPc \in Awaiting THEN 1 ELSE 0) + Len(hbStale)

\* C14: at no time is more than one request to the time-tracking service in
\* flight, also across a change of the viewed submission during an ingestion.
C14_OneRequestInFlight == RequestsInFlight <= 1

\* The day loop of the running effect ended before its last day
DayLoopAborted ==
    /\ hbPc = "done"
    /\ hbRun.endDay > 0
    /\ hbRun.currentDate <= hbRun.endDay

\* C15: when the request of a day fails, no further day is requested, the
\* heartbeat list is empty (whatever earlier days had delivered), and the hook
\* shows an error with isLoading false.
C15_FailedDayDiscardsAll ==
    DayLoopAborted =>
        /\ hbHeartbeats = <<>>
        /\ hbError # Null
        /\ ~hbIsLoading
        /\ hbProgress = None

\* The request of the second day failed after the first day had delivered
\* heartbeats of the viewed submission's projects.
C15_Witness ==
    /\ DayLoopAborted
    /\ hbRun.currentDay >= 1
    /\ hbRun.allHeartbeats # <<>>

\* ------------------------------------------------------------------------
\* Claims about the playback view and the source cache
\* ------------------------------------------------------------------------

\* The latest effect run asked for the source of the selected group: its
\* key is the key of the fetch state
SelectedKeyFetched ==
    selectedFileGroup # None => fetchState.key = FetchKeyOf(selectedFileGroup)

\* C11: after a different FileGroup was selected, the current heartbeat index
\* is 0 and the fetch state is keyed by owner, repo, relativePath and the
\* branch of the first heartbeat of the selected group.
C11_SelectResetsIndexAndFetches ==
    pLast.event = "select" =>
        /\ currentIndex = 0
        /\ selectedFileGroup # None
        /\ fetchState.key =
             Some(Join(<<GitHubInfo.owner, GitHubInfo.repo,
                         selectedFileGroup[1].relativePath,
                         BranchOf(selectedFileGroup[1])>>, Slash))

\* The network requests in flight for a cache key
InFlightFor(path, ref) ==
    {i \in 1..Len(pRequests) : pRequests[i].path = path /\ pRequests[i].ref = ref}

\* C12: source fetches are single-flight per (owner, repo, path, ref): at no
\* time are two network requests for the same key in flight.
C12_SingleFlightPerKey ==
    \A i \in 1..Len(pRequests) :
        Cardinality(InFlightFor(pRequests[i].path, pRequests[i].ref)) = 1

\* The index of the last heartbeat of the selected group
LastIndex == Len(CurrentHeartbeats(selectedFileGroup)) - 1

\* A tick below the last index advances by exactly one and playback goes on;
\* a tick at or past the last index stops playback and leaves the index
TickAdvancesOrStops ==
    [][PvTick =>
        IF currentIndex < LastIndex
        THEN currentIndex' = currentIndex + 1 /\ isPlaying'
        ELSE currentIndex' = currentIndex /\ ~isPlaying']_vars

\* C16: while playback is active the index is never past the last heartbeat
\* of the selected group, and when a tick has stopped playback the index is
\* at the last heartbeat.
C16_PlaybackStopsAtLast ==
    /\ isPlaying => currentIndex <= LastIndex
    /\ (pLast.event = "tick" /\ ~isPlaying) => currentIndex = LastIndex

\* C17: a toggle of Play at (or past) the last heartbeat of the selected
\* group sets the index to 0 and starts auto-advance.
C17_PlayAtLastRestarts ==
    [][(PvTogglePlayback /\ ~isPlaying /\ currentIndex >= LastIndex) =>
           (currentIndex' = 0 /\ isPlaying')]_vars

\* Play was toggled at the last heartbeat of a group with several heartbeats,
\* and playback now runs from index 0
C17_Witness ==
    /\ pLast.event = "toggle"
    /\ LastIndex >= 1
    /\ pLast.index = LastIndex
    /\ isPlaying
    /\ currentIndex = 0

\* The last event was a manual step
SteppedLast == pLast.event \in {"previous", "next", "slider"}

\* C18 as stated: no manual step happens while a source fetch is in flight.
C18_NoStepMidFetch == SteppedLast => ~IsLoadingContent

\* C18: a manual step (previous, next, slider) leaves isPlaying as it was,
\* and it leaves the source fetch alone: a step taken while a fetch is in
\* flight neither cancels nor restarts it.
C18_StepKeepsPlayback ==
    [][(PvPrevious \/ PvNext \/ PvSlider) =>
           /\ isPlaying' = isPlaying
           /\ fetchState' = fetchState
           /\ pRequests' = pRequests]_vars

\* A step was taken during playback while the source was still being fetched
C18_Witness ==
    /\ SteppedLast
    /\ pLast.index # currentIndex
    /\ isPlaying
    /\ fetchState.isLoading
    /\ \E i \in 1..Len(pRequests) : ~pRequests[i].cancelled

\* The cache key of a selected group
SelectedCacheKey(sel) ==
    CacheKeyOf(GitHubInfo.owner, GitHubInfo.repo, sel[1].relativePath, BranchOf(sel[1]))

\* The network requests in flight for the source of a selected group
RequestsFor(reqs, sel) ==
    {i \in 1..Len(reqs) : /\ reqs[i].path = sel[1].relativePath
                          /\ reqs[i].ref = BranchOf(sel[1])}

\* C19: when the source of a newly selected file is requested and its cache
\* entry is less than 5 minutes old, the stored content is shown and no
\* network request is issued; when the entry is missing or 5 minutes old or
\* older, a network request for it is issued; and no step removes an entry
\* from the cache.
C19_CacheWindow ==
    [][/\ \A k \in CacheKeys : cache[k] # None => cache'[k] # None
       /\ PvSelectGroup =>
            LET key == SelectedCacheKey(selectedFileGroup')
            IN  IF cache[key] # None /\ now - cache[key][1].timestamp < 5 * 60 * 1000
                THEN /\ pRequests' = CancelRuns(pRequests)
                     /\ fetchState'.content = Some(cache[key][1].content)
                     /\ ~fetchState'.isLoading
                ELSE /\ RequestsFor(pRequests', selectedFileGroup') # {}
                     /\ fetchState'.isLoading]_vars

\* A file was selected again exactly 5 minutes after its source was stored,
\* and a network request for it is in flight
C19_Witness ==
    /\ pLast.event = "select"
    /\ selectedFileGroup # None
    /\ cache[SelectedCacheKey(selectedFileGroup)] # None
    /\ now - cache[SelectedCacheKey(selectedFileGroup)][1].timestamp = CACHE_TTL
    /\ RequestsFor(pRequests, selectedFileGroup) # {}

\* A file was selected again one millisecond earlier, and its stored source
\* is shown without a request
CacheHitReached ==
    /\ pLast.event = "select"
    /\ selectedFileGroup # None
    /\ cache[SelectedCacheKey(selectedFileGroup)] # None
    /\ now - cache[SelectedCacheKey(selectedFileGroup)][1].timestamp = CACHE_TTL - 1
    /\ pRequests = <<>>
    /\ FileContent = Some(cache[SelectedCacheKey(selectedFileGroup)][1].content)

\* The rendered line of the current heartbeat, when it is displayed
HighlightedLines ==
    {idx \in 1..Len(RenderedLines) : RenderedLines[idx].isHighlighted}

\* C20: whenever the line of the current heartbeat is displayed, the single
\* character at offset cursorpos of that line is marked, or a blank
\* placeholder when cursorpos is past the end of the line; this for every
\* cursorpos, 0 included.
C20_CursorCharacterMarked ==
    \A idx \in HighlightedLines :
        CurrentHeartbeat # None =>
            LET line == VisibleLines[idx]
                cursorpos == CurrentHeartbeat[1].cursorpos
            IN  RenderedLines[idx].marked =
                    Some(IF cursorpos < Len(line) THEN line[cursorpos + 1] ELSE Space)

\* The same for every cursorpos other than 0
CursorMarkedUnlessZero ==
    \A idx \in HighlightedLines :
        (CurrentHeartbeat # None /\ CurrentHeartbeat[1].cursorpos # 0) =>
            LET line == VisibleLines[idx]
                cursorpos == CurrentHeartbeat[1].cursorpos
            IN  /\ RenderedLines[idx].marked =
                     Some(IF cursorpos < Len(line) THEN line[cursorpos + 1] ELSE Space)
                /\ RenderedLines[idx].before = SubSeq(line, 1, Min(cursorpos, Len(line)))
                /\ RenderedLines[idx].after = SubSeq(line, cursorpos + 2, Len(line))

\* A character inside the line is marked / the placeholder past its end
MarkInsideLineReached ==
    \E idx \in HighlightedLines :
        /\ CurrentHeartbeat # None
        /\ CurrentHeartbeat[1].cursorpos \in 1..(Len(VisibleLines[idx]) - 1)
PlaceholderReached ==
    \E idx \in HighlightedLines :
        /\ CurrentHeartbeat # None
        /\ CurrentHeartbeat[1].cursorpos >= Len(VisibleLines[idx])
        /\ RenderedLines[idx].marked = Some(Space)

\* The answer to a request of a superseded run of the fetch effect (its
\* cancelled flag is set) leaves the fetch state of the view as it was
StaleFetchDiscarded ==
    [][(/\ PvFetchSettles
        /\ \A i \in 1..Len(pRequests) :
              pRequests' = RemoveAt(pRequests, i) => pRequests[i].cancelled) =>
           fetchState' = fetchState]_vars

\* ------------------------------------------------------------------------
\* Claims about the delta plots, the ingestion progress, the submission
\* writes and the review actions
\* ------------------------------------------------------------------------

\* C21: computeDeltas on N heartbeats returns N - 1 entries for N >= 2 and
\* none for N < 2; entry i holds the time difference between heartbeat i and
\* heartbeat i - 1 in seconds and the absolute differences of their lineno
\* and of their cursorpos.
C21_Deltas ==
    dPc = "computed" =>
        LET N == Len(dHeartbeats) IN
        /\ Len(dDeltas) = IF N >= 2 THEN N - 1 ELSE 0
        /\ \A i \in 1..Len(dDeltas) :
            LET prev == dHeartbeats[i]
                curr == dHeartbeats[i + 1]
            IN  /\ dDeltas[i].deltaT = curr.time - prev.time
                /\ dDeltas[i].deltaL >= 0
                /\ dDeltas[i].deltaL \in {curr.lineno - prev.lineno,
                                          prev.lineno - curr.lineno}
                /\ dDeltas[i].deltaC >= 0
                /\ dDeltas[i].deltaC \in {curr.cursorpos - prev.cursorpos,
                                          prev.cursorpos - curr.cursorpos}

\* The example of the specification: times 0 s, 5 s, 12 s, lines 10, 12, 9,
\* cursors 3, 40, 5 give (5 s, 2, 37) and (7 s, 3, 35)
C21_Witness ==
    /\ dPc = "computed"
    /\ dHeartbeats = <<DeltaHeartbeat(0, 10, 3), DeltaHeartbeat(5000, 12, 40),
                       DeltaHeartbeat(12000, 9, 5)>>
    /\ dDeltas = <<[index |-> 1, deltaT |-> 5 * 1000, deltaL |-> 2, deltaC |-> 37],
                   [index |-> 2, deltaT |-> 7 * 1000, deltaL |-> 3, deltaC |-> 35]>>

\* C23: once no ingestion run is active for the viewed submission (the run
\* of the current effect has returned), isLoading is false.
C23_IdleIsNotLoading == hbPc = "done" => ~hbIsLoading

\* The per-day requests of the running day loop: those answered so far and
\* those still to come, one for every UTC day from currentDate to endDay
DayRequests ==
    hbRun.currentDay + (hbRun.endDay + 1 - hbRun.currentDate) \div (1000 * 60 * 60 * 24)

\* C26: whenever progress is set, current <= total, and total is the number
\* of per-day requests of the loop, hence at least 1.
C26_ProgressTotalIsRequestCount ==
    hbProgress # None =>
        /\ hbProgress[1].current <= hbProgress[1].total
        /\ hbProgress[1].total = DayRequests
        /\ hbProgress[1].total >= 1

\* What the code keeps instead: total is one less than the number of requests
ProgressTotalOneShort ==
    (hbProgress # None /\ hbPc = "getHeartbeatsFor") =>
        /\ hbProgress[1].current <= hbProgress[1].total
        /\ hbProgress[1].total = DayRequests - 1

\* The projects of the response that some non-empty declared key names:
\* the key contains the project name or is contained in it, ignoring case
NamedProjects ==
    {i \in 1..Len(syncRun.projects) :
        \E k \in 1..Len(syncRun.projectKeys) :
            /\ syncRun.projectKeys[k] # <<>>
            /\ ProjectMatches(syncRun.projects[i], syncRun.projectKeys[k])}

RECURSIVE DurationOf(_, _)
DurationOf(projects, S) ==
    IF S = {} THEN 0
    ELSE LET i == CHOOSE j \in S : TRUE
         IN  projects[i].total_duration + DurationOf(projects, S \ {i})

\* C27: the total of a finished hour-sync is the sum of the durations of
\* some of the projects named by a non-empty declared key, each counted at
\* most once.
C27_EachProjectAtMostOnce ==
    (syncPc = "done" /\ syncRun.received) =>
        \E S \in SUBSET NamedProjects :
            syncRun.totalSeconds = DurationOf(syncRun.projects, S)

\* C22: when the error of a failed source fetch is shown, nothing is
\* loading and no request of the current effect run is in flight; as long as
\* the selection stays, the error stays and no further request is issued;
\* and a selection of another file group replaces it by the fetch of the new
\* key (a request, or the cached source), with no error shown.
C22_FetchErrorAndRecovery ==
    [][/\ LoadError' # None =>
            /\ ~IsLoadingContent'
            /\ FileContent' = None
            /\ \A i \in 1..Len(pRequests') : pRequests'[i].cancelled
       /\ (LoadError # None /\ selectedFileGroup' = selectedFileGroup) =>
            /\ LoadError' = LoadError
            /\ Len(pRequests') <= Len(pRequests)
       /\ (LoadError # None /\ PvSelectGroup) =>
            /\ LoadError' = None
            /\ fetchState'.key = FetchKeyOf(selectedFileGroup')
            /\ \/ /\ fetchState'.isLoading
                  /\ \E i \in 1..Len(pRequests') :
                        /\ ~pRequests'[i].cancelled
                        /\ pRequests'[i].path = selectedFileGroup'[1].relativePath
               \/ /\ ~fetchState'.isLoading
                  /\ fetchState'.content # None]_vars

\* The request of the current effect run was answered with a failure and
\* the error of the selected file is shown
C22_Witness ==
    /\ pLast.event = "response"
    /\ LoadError # None
    /\ ~fetchState.isLoading
    /\ pRequests = <<>>

\* C24: whenever the selected file group has at least one heartbeat, the
\* current index is an index of one of its heartbeats.
C24_IndexInRange ==
    (selectedFileGroup # None /\ Len(selectedFileGroup[1].heartbeats) >= 1) =>
        currentIndex \in 0..(Len(selectedFileGroup[1].heartbeats) - 1)

\* C25: the selected file group is one of the file groups derived from the
\* current heartbeats input.
C25_SelectionFromCurrentInput ==
    (pLast.event # "none" /\ selectedFileGroup # None) =>
        /\ fileGroups = groupHeartbeatsByFile(pHeartbeats).groups
        /\ \E k \in 1..Len(fileGroups) : fileGroups[k] = selectedFileGroup[1]

\* What the reconciliation keeps instead: the entity of the selected group
\* is the entity of one of the current file groups
SelectionEntityFromCurrentInput ==
    (pLast.event # "none" /\ selectedFileGroup # None) =>
        \E k \in 1..Len(fileGroups) : fileGroups[k].entity = selectedFileGroup[1].entity

\* C28: update and updateCustomField change the locally held fields only
\* in the step in which the data service has accepted the write, and then
\* exactly by the assignments of that write; a step in which the service
\* rejects the write, or in which the call throws for want of a service,
\* leaves every local field as it was.
C28_LocalFieldsOnlyAfterRemoteWrite ==
    [][ /\ (rvSubs' # rvSubs =>
              /\ rvLast' = "writeOk"
              /\ \E w \in rvInFlight \ rvInFlight' :
                    /\ rvSubs' = AssignLocal(rvSubs, w)
                    /\ rvRemote'[w.sub][w.field] = w.value)
        /\ (rvLast' \in {"writeRejected", "noService"} => rvSubs' = rvSubs)
      ]_vars

\* An approve write was accepted and a later write of the hours was
\* rejected: approved is set, the hours are the fetched ones although the
\* input shows the typed value.
C28_Witness ==
    /\ rvLast = "writeRejected"
    /\ \E id \in RecordIds :
          /\ rvSelected = Some(id)
          /\ rvSubs[id].approved
          /\ rvSubs[id].hoursSpent = ReviewSubmissions(rvConfig)[id].hoursSpent
          /\ rvLocal.hoursSpent # rvSubs[id].hoursSpent

\* The call throws because no data service is set: nothing is sent and the
\* fields are the fetched ones.
WriteWithoutService ==
    /\ rvLast = "noService"
    /\ rvInFlight = {}
    /\ rvSubs = ReviewSubmissions(rvConfig)

\* C29: when no approve write is in flight the approvingSubmission marker
\* is null, and when no reject or undo-rejection write is in flight the
\* rejectingSubmission marker is null, so that a later attempt is not held
\* back by the guard of its handler.
C29_MarkersReturnToNull ==
    /\ (WritesBy("approve") = {} => approvingSubmission = None)
    /\ (WritesBy("reject") \cup WritesBy("undoRejection") = {}
           => rejectingSubmission = None)

\* The part of C29 about the number of writes: at most one approve write
\* and at most one rejection write is in flight.
AtMostOneMarkedWrite ==
    /\ Cardinality(WritesBy("approve")) <= 1
    /\ Cardinality(WritesBy("reject") \cup WritesBy("undoRejection")) <= 1

\* C30: every justification or project keys write that a debounce timer
\* sends carries a text of the submission it is sent to (loaded from it or
\* typed while it was selected), or the empty text.
C30_NoForeignTextWritten ==
    \A w \in WritesBy("debounce") : w.value.of \in {w.sub, "none"}

\* The texts loaded from a submission and the texts typed for it are never
\* sent to another submission.
NoForeignStoredOrTypedText ==
    \A w \in WritesBy("debounce") :
        w.value.kind \in {"stored", "typed"} => w.value.of = w.sub

====
